---- MODULE Spec2Model ----
(***************************************************************************)
(* The data cube indexer of mosaic (packages/core/src/DataCubeIndexer.js)  *)
(* together with the part of the SQL query builder it drives               *)
(* (packages/sql/src/Query.js), as one state machine.                      *)
(*                                                                         *)
(* JavaScript values are modelled as follows.  Objects are records with a  *)
(* "type" field; null and undefined are the record `null`.  A JS string    *)
(* that the program only compares or uses as a key is a TLA+ string; a JS  *)
(* string that the program builds (SQL text) is a sequence of pieces, each *)
(* piece a TLA+ string, so that concatenation is \o and text equality is   *)
(* sequence equality.  An object whose identity matters (a DataCubeInfo, a *)
(* promise) carries the number it was allocated with.                      *)
(***************************************************************************)
EXTENDS Integers, Sequences, FiniteSets, TLC

VARIABLES
  _enabled,     \* DataCubeIndexer._enabled
  _schema,      \* DataCubeIndexer._schema
  active,       \* DataCubeIndexer.active
  indexes,      \* DataCubeIndexer.indexes: Map client -> DataCubeInfo | Skip | null
  execs,        \* the arguments of the coordinator's exec calls, in call order
  futures,      \* futures[f]: state of the promise returned by the f-th exec call
  reactions,    \* promises with a catch handler attached (line 190) that has not run
  errors,       \* the arguments of coordinator.logger().error, in call order
  populatedBy,  \* history: the clause source of the index call that set indexes[c]
  last,         \* history: the most recent call of the indexer's API and its result
  heap,         \* the Query objects a program built, by allocation number
  walk          \* the subqueryPushdown call in progress: memo, pending calls, log

vars == <<_enabled, _schema, active, indexes, execs, futures, reactions, errors,
          populatedBy, last, heap, walk>>

(***************************************************************************)
(* Bounds of the model.                                                    *)
(***************************************************************************)
MaxExecs == 2

(***************************************************************************)
(* JavaScript helpers.                                                     *)
(***************************************************************************)
null == [type |-> "null"]

\* a JS string value handed to an API that accepts several kinds of values;
\* its characters are the text s
Str(s) == [type |-> "string", value |-> s]
\* an array, a number and a bin method name where the value may also be absent
Arr(s) == [type |-> "array", value |-> s]
Num(n) == [type |-> "number", value |-> n]
Name(s) == [type |-> "name", value |-> s]

Range(s) == { s[i] : i \in DOMAIN s }

RECURSIVE Flatten(_)
\* Array.prototype.flat / flatMap over an array of arrays
Flatten(ss) == IF ss = <<>> THEN <<>> ELSE Head(ss) \o Flatten(Tail(ss))

RECURSIVE Join(_, _)
\* Array.prototype.join over an array of texts, sep a text
Join(ts, sep) ==
  IF ts = <<>> THEN <<>>
  ELSE IF Len(ts) = 1 THEN ts[1]
  ELSE ts[1] \o sep \o Join(Tail(ts), sep)

Map1(f(_), s) == [i \in DOMAIN s |-> f(s[i])]

RECURSIVE Digits(_)
\* Number.prototype.toString() of a non-negative integer
Digits(n) ==
  LET d == <<"0", "1", "2", "3", "4", "5", "6", "7", "8", "9">>
  IN  IF n < 10 THEN <<d[n + 1]>> ELSE Digits(n \div 10) \o <<d[(n % 10) + 1]>>

RECURSIVE HexDigits(_)
\* the lowercase hexadecimal digits of a non-negative integer
HexDigits(n) ==
  LET d == <<"0", "1", "2", "3", "4", "5", "6", "7", "8", "9",
             "a", "b", "c", "d", "e", "f">>
  IN  IF n < 16 THEN <<d[n + 1]>> ELSE HexDigits(n \div 16) \o <<d[(n % 16) + 1]>>

\* an object literal / Object.fromEntries result: its entries in insertion order
Keys(o) == [i \in DOMAIN o |-> o[i].key]
Values(o) == [i \in DOMAIN o |-> o[i].value]
HasKey(o, k) == \E i \in DOMAIN o : o[i].key = k

RECURSIVE Spread(_, _)
\* { ...a, ...b }: a key of b that a has keeps a's position and takes b's value
Spread(a, b) ==
  IF b = <<>> THEN a
  ELSE LET e == Head(b)
           a2 == IF HasKey(a, e.key)
                 THEN [i \in DOMAIN a |-> IF a[i].key = e.key THEN e ELSE a[i]]
                 ELSE Append(a, e)
       IN  Spread(a2, Tail(b))

(***************************************************************************)
(* Column and table references, SQL expressions (packages/sql/src/ref.js   *)
(* and expression.js).                                                     *)
(***************************************************************************)
\* a name (of a column, a table, an alias) is a text; the absent name is <<>>
column(name) == [type |-> "ref", table |-> <<>>, column |-> name]
relation(name) == [type |-> "ref", table |-> name, column |-> <<>>]
sql(text, cols) == [type |-> "sql", text |-> text, columns |-> cols]

isRef(e) == e.type = "ref"
isQuery(e) == e.type = "query"

asColumn(v) == IF v.type = "string" THEN column(v.value) ELSE v
asRelation(v) == IF v.type = "string" THEN relation(v.value) ELSE v

quoted(name) == <<"\"">> \o name \o <<"\"">>

\* Ref.toString
RefToString(r) ==
  IF r.table # <<>> /\ r.column # <<>>
    THEN quoted(r.table) \o <<".">> \o quoted(r.column)
  ELSE IF r.table # <<>> THEN quoted(r.table)
  ELSE quoted(r.column)

\* the names of the base columns an expression refers to (SQLExpression.columns)
columnsOf(e) == IF isRef(e) THEN (IF e.column = <<>> THEN <<>> ELSE <<e.column>>)
                ELSE e.columns

isColumnRefFor(e, name) == isRef(e) /\ e.column = name

(***************************************************************************)
(* Query (packages/sql/src/Query.js).                                      *)
(***************************************************************************)
\* new Query()
NewQuery ==
  [type |-> "query", with |-> <<>>, select |-> <<>>, from |-> <<>>, where |-> <<>>,
   groupby |-> <<>>, having |-> <<>>, window |-> <<>>, qualify |-> <<>>,
   orderby |-> <<>>]

\* Query.clone: a new query object over a shallow copy of the clause lists
clone(q) ==
  [type |-> "query", with |-> q.with, select |-> q.select, from |-> q.from,
   where |-> q.where, groupby |-> q.groupby, having |-> q.having,
   window |-> q.window, qualify |-> q.qualify, orderby |-> q.orderby]

\* isDoubleQuoted and unquote
isDoubleQuoted(s) == Len(s) > 0 /\ s[1] = "\"" /\ s[Len(s)] = "\""
unquote(s) == IF isDoubleQuoted(s) THEN SubSeq(s, 2, Len(s) - 1) ELSE s

RECURSIVE selectList(_)
\* the list Query.select builds from its flattened arguments
selectList(expr) ==
  IF expr = <<>> THEN <<>>
  ELSE LET e == Head(expr)
           items ==
             IF e = null THEN <<>>
             ELSE IF e.type = "string"
               THEN << [as |-> e.value, expr |-> asColumn(e)] >>
             ELSE IF e.type = "ref"
               THEN << [as |-> e.column, expr |-> e] >>
             ELSE IF e.type = "array"
               THEN << [as |-> e.value[1], expr |-> e.value[2]] >>
             ELSE [i \in DOMAIN e.entries |->
                     [as |-> unquote(e.entries[i].key),
                      expr |-> asColumn(e.entries[i].value)]]
       IN  items \o selectList(Tail(expr))

\* the select list with a list added (lines 130-135): the items under another
\* alias than the added ones, then the added items that have an expression
selectInto(q, list) ==
  [q EXCEPT !.select =
     SelectSeq(q.select, LAMBDA x : \A i \in DOMAIN list : list[i].as # x.as)
       \o SelectSeq(list, LAMBDA x : x.expr # null)]

\* Query.select(...expr) with arguments
select(q, expr) == selectInto(q, selectList(expr))

RECURSIVE fromList(_)
fromList(expr) ==
  IF expr = <<>> THEN <<>>
  ELSE LET e == Head(expr)
           items ==
             IF e = null THEN <<>>
             ELSE IF e.type = "string"
               THEN << [as |-> e.value, from |-> asRelation(e)] >>
             ELSE IF e.type = "ref"
               THEN << [as |-> e.table, from |-> e] >>
             ELSE << [as |-> <<>>, from |-> e] >>
       IN  items \o fromList(Tail(expr))

\* Query.from(...expr) with arguments
from(q, expr) == [q EXCEPT !.from = q.from \o fromList(expr)]

\* Query.where(...expr) with arguments
where(q, expr) ==
  [q EXCEPT !.where = q.where \o SelectSeq(expr, LAMBDA x : x # null)]

\* Query.groupby(...expr) with arguments
groupby(q, expr) ==
  [q EXCEPT !.groupby =
     q.groupby \o Map1(asColumn, SelectSeq(expr, LAMBDA x : x # null))]

\* Query.orderby(...expr) with arguments
orderby(q, expr) ==
  [q EXCEPT !.orderby =
     q.orderby \o Map1(asColumn, SelectSeq(expr, LAMBDA x : x # null))]

\* the SQL text of an expression (its toString)
ExprToString(e) == IF isRef(e) THEN RefToString(e) ELSE e.text

RECURSIVE toString(_)
\* Query.toString; the client queries of the model set no DISTINCT, SAMPLE,
\* WINDOW, LIMIT or OFFSET
toString(q) ==
  LET cte == [i \in DOMAIN q.with |->
                quoted(q.with[i].as) \o <<" AS (">> \o toString(q.with[i].query)
                  \o <<")">>]
      sels == [i \in DOMAIN q.select |->
                LET s == q.select[i]
                IN  IF isColumnRefFor(s.expr, s.as) /\ s.expr.table = <<>>
                    THEN ExprToString(s.expr)
                    ELSE ExprToString(s.expr) \o <<" AS ">> \o quoted(s.as)]
      rels == [i \in DOMAIN q.from |->
                LET f == q.from[i]
                    rel == IF isQuery(f.from)
                           THEN <<"(">> \o toString(f.from) \o <<")">>
                           ELSE ExprToString(f.from)
                IN  IF f.as = <<>> \/ (isRef(f.from) /\ f.as = f.from.table)
                    THEN rel
                    ELSE rel \o <<" AS ">> \o quoted(f.as)]
      clauses(list) == Join(SelectSeq(Map1(ExprToString, list), LAMBDA x : x # <<>>),
                            <<" AND ">>)
      parts ==
        << IF Len(cte) > 0 THEN <<"WITH ">> \o Join(cte, <<", ">>) ELSE <<>>,
           <<"SELECT", " ">> \o Join(sels, <<", ">>),
           IF Len(rels) > 0 THEN <<"FROM ">> \o Join(rels, <<", ">>) ELSE <<>>,
           IF Len(q.where) > 0 /\ clauses(q.where) # <<>>
             THEN <<"WHERE ">> \o clauses(q.where) ELSE <<>>,
           IF Len(q.groupby) > 0
             THEN <<"GROUP BY ">> \o Join(Map1(ExprToString, q.groupby), <<", ">>)
             ELSE <<>>,
           IF Len(q.having) > 0 /\ clauses(q.having) # <<>>
             THEN <<"HAVING ">> \o clauses(q.having) ELSE <<>>,
           IF Len(q.qualify) > 0 /\ clauses(q.qualify) # <<>>
             THEN <<"QUALIFY ">> \o clauses(q.qualify) ELSE <<>>,
           IF Len(q.orderby) > 0
             THEN <<"ORDER BY ">> \o Join(Map1(ExprToString, q.orderby), <<", ">>)
             ELSE <<>> >>
  IN  Join(SelectSeq(parts, LAMBDA x : x # <<>>), <<" ">>)

\* Query.subqueries of a query that is nobody's CTE: the FROM entries that are
\* queries or that name one of the query's own CTEs, in FROM order
subqueries(q) ==
  LET cte(name) == { i \in DOMAIN q.with : q.with[i].as = name }
      sub(f) == IF isQuery(f.from) THEN <<f.from>>
                ELSE IF isRef(f.from) /\ cte(f.from.table) # {}
                  THEN << q.with[CHOOSE i \in cte(f.from.table) :
                                   \A j \in cte(f.from.table) : j <= i].query >>
                ELSE <<>>
  IN  Flatten([i \in DOMAIN q.from |-> sub(q.from[i])])

(***************************************************************************)
(* Hashing (packages/core/src/util/hash.js) and the text it reads.         *)
(***************************************************************************)
\* the UTF-8 bytes of one piece of text
utf8(piece) ==
  CASE piece = "\"" -> <<34>>
    [] piece = "." -> <<46>>
    [] piece = " " -> <<32>>
    [] piece = ", " -> <<44, 32>>
    [] piece = "(" -> <<40>>
    [] piece = ")" -> <<41>>
    [] piece = "SELECT" -> <<83, 69, 76, 69, 67, 84>>
    [] piece = "FROM " -> <<70, 82, 79, 77, 32>>
    [] piece = "WHERE " -> <<87, 72, 69, 82, 69, 32>>
    [] piece = "GROUP BY " -> <<71, 82, 79, 85, 80, 32, 66, 89, 32>>
    [] piece = "HAVING " -> <<72, 65, 86, 73, 78, 71, 32>>
    [] piece = "QUALIFY " -> <<81, 85, 65, 76, 73, 70, 89, 32>>
    [] piece = "ORDER BY " -> <<79, 82, 68, 69, 82, 32, 66, 89, 32>>
    [] piece = "WITH " -> <<87, 73, 84, 72, 32>>
    [] piece = " AS " -> <<32, 65, 83, 32>>
    [] piece = " AS (" -> <<32, 65, 83, 32, 40>>
    [] piece = " AND " -> <<32, 65, 78, 68, 32>>
    [] piece = "SUM" -> <<83, 85, 77>>
    [] piece = "COUNT(*)" -> <<67, 79, 85, 78, 84, 40, 42, 41>>
    [] piece = "FLOOR" -> <<70, 76, 79, 79, 82>>
    [] piece = "CEIL" -> <<67, 69, 73, 76>>
    [] piece = "ROUND" -> <<82, 79, 85, 78, 68>>
    [] piece = "::DOUBLE * " -> <<58, 58, 68, 79, 85, 66, 76, 69, 32, 42, 32>>
    [] piece = " - " -> <<32, 45, 32>>
    [] piece = "::DOUBLE" -> <<58, 58, 68, 79, 85, 66, 76, 69>>
    [] piece = "::INTEGER" -> <<58, 58, 73, 78, 84, 69, 71, 69, 82>>
    [] piece = " = " -> <<32, 61, 32>>
    [] piece = "'east'" -> <<39, 101, 97, 115, 116, 39>>
    [] piece = "-" -> <<45>>
    [] piece = "tbl" -> <<116, 98, 108>>
    [] piece = "year" -> <<121, 101, 97, 114>>
    [] piece = "sales" -> <<115, 97, 108, 101, 115>>
    [] piece = "s" -> <<115>>
    [] piece = "cnt" -> <<99, 110, 116>>
    [] piece = "region" -> <<114, 101, 103, 105, 111, 110>>
    [] piece = "category" -> <<99, 97, 116, 101, 103, 111, 114, 121>>
    [] piece = "x" -> <<120>>
    [] piece = "y" -> <<121>>
    [] piece = "active" -> <<97, 99, 116, 105, 118, 101>>
    [] piece = "0" -> <<48>>
    [] piece = "1" -> <<49>>
    [] piece = "2" -> <<50>>
    [] piece = "3" -> <<51>>
    [] piece = "4" -> <<52>>
    [] piece = "5" -> <<53>>
    [] piece = "6" -> <<54>>
    [] piece = "7" -> <<55>>
    [] piece = "8" -> <<56>>
    [] piece = "9" -> <<57>>

RECURSIVE Xor(_, _, _)
\* bitwise exclusive or of the low n bits of a and b
Xor(a, b, n) ==
  IF n = 0 THEN 0
  ELSE ((a + b) % 2) + 2 * Xor(a \div 2, b \div 2, n - 1)

\* FNV-1a over 32-bit words, a word kept as its two 16-bit halves <<hi, lo>>:
\* the offset basis 0x811c9dc5 and the prime 0x01000193 = 2^24 + FnvPrimeLow
FnvOffsetHigh == 33052
FnvOffsetLow == 40389
FnvPrimeLow == 403
Half == 65536

\* (h * 0x01000193) mod 2^32
fnv_multiply(h) ==
  LET lo == h[2] * FnvPrimeLow
      hi == h[1] * FnvPrimeLow + (lo \div Half) + (h[2] % 256) * 256
  IN  << hi % Half, lo % Half >>

\* one round: xor the byte into the low bits, then multiply
fnv_round(h, byte) ==
  fnv_multiply(<< h[1], (h[2] - (h[2] % 256)) + Xor(h[2] % 256, byte, 8) >>)

RECURSIVE fnv(_, _, _, _)
\* the rounds for bytes[i..j] in order, from h (the loop, split in halves)
fnv(h, bytes, i, j) ==
  IF i > j THEN h
  ELSE IF i = j THEN fnv_round(h, bytes[i])
  ELSE LET mid == (i + j) \div 2
           h1 == fnv(h, bytes, i, mid)
       IN  IF h1[1] < 0 THEN h1 ELSE fnv(h1, bytes, mid + 1, j)

\* the 32-bit FNV-1a hash of a text
fnv_hash(text) ==
  LET bytes == Flatten(Map1(utf8, text))
  IN  fnv(<<FnvOffsetHigh, FnvOffsetLow>>, bytes, 1, Len(bytes))

\* (h >>> 0).toString(16): the word as an unsigned number in lowercase hex
toHex(h) ==
  LET low == HexDigits(h[2])
      pad == [i \in 1..(4 - Len(low)) |-> "0"]
  IN  IF h[1] = 0 THEN low ELSE HexDigits(h[1]) \o pad \o low

(***************************************************************************)
(* Scales (packages/sql/src/scales.js) and the bin-function synthesizer.   *)
(***************************************************************************)
RECURSIVE Gcd(_, _)
Gcd(a, b) == IF b = 0 THEN a ELSE Gcd(b, a % b)

RECURSIVE FracDigits(_, _)
FracDigits(rem, den) ==
  IF rem = 0 THEN <<>>
  ELSE Digits((rem * 10) \div den) \o FracDigits((rem * 10) % den, den)

\* `${x}` of the number num/den (den > 0) with a terminating decimal expansion
NumberToString(num, den) ==
  LET n == IF num < 0 THEN -num ELSE num
      sign == IF num < 0 THEN <<"-">> ELSE <<>>
  IN  sign \o Digits(n \div den)
        \o (IF n % den = 0 THEN <<>> ELSE <<".">> \o FracDigits(n % den, den))

\* the scale types whose transform the model computes: both apply the identity
SupportedScales == {"identity", "linear"}

\* scaleTransform(scale): the scale with its transform, apply absent (null) for
\* an unsupported scale type
scaleTransform(scale) ==
  [type |-> scale.type, domain |-> scale.domain, range |-> scale.range,
   apply |-> IF scale.type \in SupportedScales
             THEN [type |-> "function", name |-> "identity"] ELSE null,
   sqlApply |-> IF scale.type \in SupportedScales
                THEN [type |-> "function", name |-> "asColumn"] ELSE null]

Min(a, b) == IF a < b THEN a ELSE b
Max(a, b) == IF a > b THEN a ELSE b
\* a difference taken with its sign
Abs_signed(a) == a
Abs(a) == IF a < 0 THEN -a ELSE a

\* the function Object, which every object literal inherits as "constructor"
ObjectConstructor == [type |-> "function", id |-> 0]

\* the property names an object literal inherits from Object.prototype whose
\* value is truthy, among the names the model uses
ObjectPrototype == { <<"constructor">> }

\* `${f}` for f the function Object
FunctionText == "function Object() { [native code] }"

BIN == << [key |-> "ceil", value |-> "CEIL"], [key |-> "round", value |-> "ROUND"] >>

\* String.prototype.toLowerCase over the bin methods a clause may name
toLowerCase(s) ==
  CASE s = "CEIL" -> "ceil"
    [] s = "Ceil" -> "ceil"
    [] s = "ROUND" -> "round"
    [] s = "Round" -> "round"
    [] s = "FLOOR" -> "floor"
    [] s = "Floor" -> "floor"
    [] s = "cEiL" -> "ceil"
    [] s = "rounD" -> "round"
    [] s = "fLOOr" -> "floor"
    [] s = "Constructor" -> "constructor"
    [] s = "Nearest" -> "nearest"
    [] OTHER -> s

\* BIN[`${bin}`.toLowerCase()] || 'FLOOR' (line 270), as the text the SQL
\* template makes of it: BIN is an object literal, so a key it does not hold
\* is looked up in Object.prototype
binFn(bin) ==
  LET key == toLowerCase(IF bin = null THEN "undefined" ELSE bin.value)
  IN  IF \E i \in DOMAIN BIN : BIN[i].key = key
      THEN BIN[CHOOSE i \in DOMAIN BIN : BIN[i].key = key].value
      ELSE IF <<key>> \in ObjectPrototype THEN FunctionText
      ELSE "FLOOR"

\* the bin function as data: the rounding function, the texts s and d of lines
\* 274-275 for a / pixelSize = num/den in lowest terms, and lo
binData(fn, num, den, lo) ==
  [type |-> "bin", fn |-> fn,
   s |-> IF num = den THEN <<>> ELSE NumberToString(num, den) \o <<"::DOUBLE * ">>,
   d |-> IF lo = 0 THEN <<>> ELSE <<" - ">> \o NumberToString(lo, 1) \o <<"::DOUBLE">>,
   num |-> num, den |-> den, lo |-> lo]

\* a / pixelSize as the fraction num/den, brought to lowest terms
binRatio(fn, num, den, lo) ==
  binData(fn, num \div Gcd(num, den), den \div Gcd(num, den), lo)

\* binInterval from the transform of the scale on (lines 269-276)
binOf(t, pixelSize, bin) ==
  IF t.apply = null THEN null
  ELSE binRatio(binFn(bin),
                IF t.type = "identity" THEN 1 ELSE Abs(t.range[2] - t.range[1]),
                (IF t.type = "identity" THEN 1
                 ELSE Max(t.domain[1], t.domain[2]) - Min(t.domain[1], t.domain[2]))
                  * pixelSize,
                Min(t.domain[1], t.domain[2]))

\* binInterval(scale, pixelSize, bin): the bin function, or null
binInterval(scale, pixelSize, bin) == binOf(scaleTransform(scale), pixelSize, bin)

\* the SQL expression a bin function returns for a field (line 276)
binExpr(b, value) ==
  sql(<<b.fn, "(">> \o b.s \o <<"(">> \o ExprToString(asColumn(value)) \o b.d
        \o <<")", ")", "::INTEGER">>,
      columnsOf(asColumn(value)))

(***************************************************************************)
(* The active-clause analyzer.                                             *)
(***************************************************************************)
TypeError == [type |-> "throw", error |-> "TypeError"]

Active(source, columns, predicate) ==
  [type |-> "active", source |-> source, columns |-> columns, predicate |-> predicate]

\* the interval branch of activeColumns with the bins computed (lines 232-249)
intervalColumns(source, clausePred, bins) ==
  IF \E i \in DOMAIN bins : bins[i] = null THEN Active(null, null, null)
  ELSE IF Len(bins) = 1 THEN
    Active(source,
           << [key |-> <<"active", "0">>,
               value |-> binExpr(bins[1], clausePred.field)] >>,
           [type |-> "interval", bins |-> bins])
  ELSE IF clausePred.children = null THEN TypeError
  ELSE IF Len(clausePred.children.value) > Len(bins) THEN TypeError
  ELSE
    Active(source,
           Spread(<<>>,
                  [i \in DOMAIN clausePred.children.value |->
                     [key |-> <<"active">> \o Digits(i - 1),
                      value |-> binExpr(bins[i], clausePred.children.value[i].field)]]),
           [type |-> "intervals", bins |-> bins])

\* activeColumns(clause): the active columns, or TypeError where the code
\* dereferences undefined
activeColumns(clause) ==
  IF clause.meta = null THEN Active(null, null, null)
  ELSE IF clause.predicate = null THEN Active(null, null, null)
  ELSE IF clause.predicate.columns = null THEN Active(null, null, null)
  ELSE IF clause.meta.type = "point" THEN
    Active(clause.source,
           Spread(<<>>, [i \in DOMAIN clause.predicate.columns.value |->
                           [key |-> clause.predicate.columns.value[i],
                            value |-> column(clause.predicate.columns.value[i])]]),
           [type |-> "point"])
  ELSE IF clause.meta.type = "interval" /\ clause.meta.scales # null THEN
    intervalColumns(
      clause.source, clause.predicate,
      [i \in DOMAIN clause.meta.scales.value |->
         binInterval(clause.meta.scales.value[i],
                     IF clause.meta.pixelSize = null THEN 1
                     ELSE clause.meta.pixelSize.value,
                     clause.meta.bin)])
  ELSE Active(null, null, null)

(***************************************************************************)
(* The cube planner and subquery push-down.                                *)
(***************************************************************************)
RECURSIVE pushdown(_, _)
\* the walk of subqueryPushdown below a query q1 that has been visited
pushdownBelow(q1, cols) ==
  [q1 EXCEPT !.from =
     [i \in DOMAIN q1.from |->
        IF isQuery(q1.from[i].from)
        THEN [q1.from[i] EXCEPT !.from = pushdown(q1.from[i].from, cols)]
        ELSE q1.from[i]]]

\* the inner function of subqueryPushdown on a query whose subqueries are
\* queries nested in FROM lists (each is then visited once, so the memo set
\* never cuts the walk): the query with the columns pushed into it and below
pushdown(q, cols) ==
  pushdownBelow(IF Len(q.from) > 0 THEN select(q, cols) ELSE q, cols)

\* subqueryPushdown(subq, cols) for subq the first subquery of query
subqueryPushdown(query, cols) ==
  LET first == CHOOSE i \in DOMAIN query.from :
                 /\ isQuery(query.from[i].from)
                 /\ \A j \in DOMAIN query.from : isQuery(query.from[j].from) => i <= j
  IN  [query EXCEPT !.from[first].from = pushdown(@, cols)]

Skip == [type |-> "Skip", skip |-> TRUE, result |-> null]

\* new DataCubeInfo({ id, table, create, active, select }): id is not kept
DataCubeInfo(options) ==
  [type |-> "DataCubeInfo", table |-> options.table, create |-> options.create,
   result |-> null, active |-> options.active, select |-> options.select,
   skip |-> FALSE]

\* the push-down of dataCubeInfo into the first subquery (lines 295-300)
cubePushdown(query, cols) ==
  IF subqueries(query) # <<>> THEN subqueryPushdown(query, Map1(Str, cols))
  ELSE query

\* the query of dataCubeInfo before its ORDER BY is taken off (lines 288-300)
cubeQuery(clientQuery, activeCols, indexCols) ==
  cubePushdown(
    groupby(select(clientQuery,
                   << [type |-> "object",
                       entries |-> Spread(activeCols.columns, indexCols.aux)] >>),
            Map1(Str, Keys(activeCols.columns))),
    Flatten(Map1(columnsOf, Values(activeCols.columns))))

\* the text of the create query (lines 303-306)
createText(clientQuery, activeCols, indexCols) ==
  toString([cubeQuery(clientQuery, activeCols, indexCols) EXCEPT !.orderby = <<>>])

\* create(name, query, { temp }) of the SQL package: the statement as data
create(table, query, temp) ==
  [type |-> "create", table |-> table, query |-> query, temp |-> temp]

\* a statement given as a string
Statement(text) == [type |-> "sql", text |-> text]

(***************************************************************************)
(* The clients, selections and clauses the calls are drawn from.           *)
(***************************************************************************)
Clients == {"c1", "c2", "c3", "c4"}

Sum(c) == sql(<<"SUM", "(">> \o quoted(c) \o <<")">>, <<c>>)
Object(entries) == [type |-> "object", entries |-> entries]

\* MosaicClient.query(filter) of each client: c1 aggregates a table, c2
\* aggregates a subquery and orders its result, c3 selects rows, c4 is another
\* client with the query of c1
client_query(client, filter) ==
  CASE client \in {"c1", "c4"} ->
         groupby(where(select(from(NewQuery, << Str(<<"tbl">>) >>),
                              << Str(<<"year">>),
                                 Object(<< [key |-> <<"s">>, value |-> Sum(<<"sales">>)] >>) >>),
                       filter),
                 << Str(<<"year">>) >>)
    [] client = "c2" ->
         orderby(
           groupby(where(select(from(NewQuery,
                                     << select(from(NewQuery, << Str(<<"tbl">>) >>),
                                               << Str(<<"year">>), Str(<<"sales">>) >>) >>),
                                << Str(<<"year">>),
                                   Object(<< [key |-> <<"s">>, value |-> Sum(<<"sales">>)] >>) >>),
                         filter),
                   << Str(<<"year">>) >>),
           << Str(<<"year">>) >>)
    [] client = "c3" ->
         where(select(from(NewQuery, << Str(<<"tbl">>) >>),
                      << Str(<<"year">>), Str(<<"sales">>) >>),
               filter)

\* indexColumns(client): the dims, aggr and aux the client declares, or null
indexColumns(client) ==
  CASE client \in {"c1", "c4"} ->
         [type |-> "indexColumns", dims |-> << <<"year">> >>,
          aggr |-> << Object(<< [key |-> <<"s">>, value |-> Sum(<<"s">>)] >>) >>,
          aux |-> <<>>]
    [] client = "c2" ->
         [type |-> "indexColumns", dims |-> << <<"year">> >>,
          aggr |-> << Object(<< [key |-> <<"s">>, value |-> Sum(<<"s">>)] >>) >>,
          aux |-> << [key |-> <<"cnt">>, value |-> sql(<<"COUNT(*)">>, <<>>)] >>]
    [] client = "c3" -> null

\* selection.remove(source).predicate(client): the other clauses' predicates
Filters ==
  { <<>>,
    << sql(quoted(<<"region">>) \o <<" = ", "'east'">>, << <<"region">> >>) >> }

\* a selection, by what it answers for the client of the call
Selections == [skip : BOOLEAN, filter : Filters]

Source(i) == [type |-> "source", id |-> i]
Sources == { Source(1), Source(2) }

Linear == [type |-> "linear", domain |-> <<0, 100>>, range |-> <<0, 500>>]
Identity == [type |-> "identity", domain |-> <<10, 20>>, range |-> <<0, 10>>]
Band == [type |-> "band", domain |-> <<0, 1>>, range |-> <<0, 10>>]

Meta(type, scales, bin, pixelSize) ==
  [type |-> type, scales |-> scales, bin |-> bin, pixelSize |-> pixelSize]
Predicate(columns, field, children) ==
  [type |-> "predicate", columns |-> columns, field |-> field, children |-> children]
Child(field, lo, hi) == [field |-> Str(field), range |-> <<lo, hi>>]

X == <<"x">>
Y == <<"y">>

\* the clause of each shape with the given source
Clause(shape, source) ==
  [source |-> source,
   meta |->
     CASE shape = "nometa" -> null
       [] shape \in {"point", "nocolumns", "nopredicate"} ->
            Meta("point", null, null, null)
       [] shape = "unknown" -> Meta("toggle", null, null, null)
       [] shape = "noscales" -> Meta("interval", null, null, null)
       [] shape = "interval" -> Meta("interval", Arr(<<Linear>>), Name("CEIL"), Num(2))
       [] shape = "intervals" -> Meta("interval", Arr(<<Linear, Identity>>), null, null)
       [] shape = "unsupported" -> Meta("interval", Arr(<<Linear, Band>>), null, null)
       [] shape = "nochildren" -> Meta("interval", Arr(<<Linear, Identity>>), null, null),
   predicate |->
     CASE shape \in {"nometa", "point", "unknown"} ->
            Predicate(Arr(<< <<"category">> >>), null, null)
       [] shape = "nocolumns" -> Predicate(null, null, null)
       [] shape = "nopredicate" -> null
       [] shape \in {"noscales", "interval"} -> Predicate(Arr(<<X>>), Str(X), null)
       [] shape \in {"intervals", "unsupported"} ->
            Predicate(Arr(<<X, Y>>), null, Arr(<< Child(X, 20, 40), Child(Y, 12, 15) >>))
       [] shape = "nochildren" -> Predicate(Arr(<<X, Y>>), Str(X), null)]

Shapes == {"nometa", "nocolumns", "nopredicate", "point", "unknown", "noscales",
           "interval", "intervals", "unsupported", "nochildren"}

Clauses == { Clause(shape, source) : shape \in Shapes, source \in Sources \cup {null} }

Schemas == { <<"mosaic">>, <<"cubes">> }

\* the create texts of the clients under the clauses and filters above
createTexts ==
  { createText(client_query(client, filter), activeColumns(Clause(shape, Source(1))),
               indexColumns(client)) :
      client \in { c \in Clients : indexColumns(c) # null },
      filter \in Filters,
      shape \in {"point", "interval", "intervals"} }

\* fnv_hash over the create texts, computed once
hashes == [text \in createTexts |-> fnv_hash(text)]

\* the select query over the cube table (lines 311-315)
selectQuery(indexCols, table, order) ==
  orderby(
    groupby(
      from(select(NewQuery, Map1(Str, indexCols.dims) \o indexCols.aggr),
           << Str(table) >>),
      Map1(Str, indexCols.dims)),
    order)

\* dataCubeInfo from the table name on (lines 309-318)
cubeInfo(id, table, createSql, activeCols, indexCols, order) ==
  DataCubeInfo([id |-> id, table |-> table, create |-> createSql,
                active |-> activeCols,
                select |-> selectQuery(indexCols, table, order)])

\* a table name whose id part also depends on the schema
cubeNamed_salted(id, createSql, activeCols, indexCols, schema, order) ==
  cubeInfo(id, schema \o <<".cube_">> \o (IF schema = <<"mosaic">> THEN id ELSE Tail(id)),
           createSql, activeCols, indexCols, order)

\* dataCubeInfo from the create text on (lines 306-318)
cubeNamed(id, createSql, activeCols, indexCols, schema, order) ==
  cubeInfo(id, schema \o <<".cube_">> \o id, createSql, activeCols, indexCols, order)

\* dataCubeInfo from the cube query on (lines 302-318)
cubeOf(query, activeCols, indexCols, schema) ==
  cubeNamed(toHex(hashes[toString([query EXCEPT !.orderby = <<>>])]),
            toString([query EXCEPT !.orderby = <<>>]),
            activeCols, indexCols, schema, query.orderby)

\* dataCubeInfo(clientQuery, active, indexCols, schema)
dataCubeInfo(clientQuery, activeCols, indexCols, schema) ==
  cubeOf(cubeQuery(clientQuery, activeCols, indexCols), activeCols, indexCols, schema)

(***************************************************************************)
(* Query objects by identity.  A query that is reached twice, or that      *)
(* reaches itself, is one object: heap[n] is the n-th Query the program    *)
(* constructed, and a FROM entry or a CTE that is a query holds its        *)
(* number.                                                                 *)
(***************************************************************************)
\* the n-th Query object, as a value held by another object
Obj(n) == [type |-> "query", id |-> n]

\* a Query object: its query field and its cteFor field
QueryObject(query, cteFor) == [query |-> query, cteFor |-> cteFor]

\* new Query() (lines 44-57)
Query_new(h) == Append(h, QueryObject(NewQuery, null))

\* this.from(e) for the n-th object
Query_from(h, n, e) == [h EXCEPT ![n].query = from(@, <<e>>)]

\* this.with({ [as]: q }) for the n-th object and q the p-th (lines 80-97):
\* the CTE is a clone of q whose cteFor is this
Query_with(h, n, as, p) ==
  [Append(h, QueryObject(clone(h[p].query), Obj(n))) EXCEPT
     ![n].query.with = @ \o << [as |-> as, query |-> Obj(Len(h) + 1)] >>]

\* this.select(cols) for the n-th object
Query_select(h, n, cols) == [h EXCEPT ![n].query = select(@, cols)]

\* the subqueries getter of the n-th object (lines 398-412): the CTE table is
\* that of cteFor if set and the object's own otherwise, a later CTE of a
\* name replaces an earlier one, and the table is an object literal
Query_subqueries(h, n) ==
  LET ctes == IF h[n].cteFor # null THEN h[h[n].cteFor.id].query.with
              ELSE h[n].query.with
      named(name) == { i \in DOMAIN ctes : ctes[i].as = name }
      cte(name) ==
        IF named(name) # {}
        THEN << ctes[CHOOSE i \in named(name) : \A j \in named(name) : j <= i].query >>
        ELSE IF name \in ObjectPrototype THEN << ObjectConstructor >>
        ELSE <<>>
      sub(f) == IF isQuery(f.from) THEN << f.from >> ELSE cte(f.from.table)
  IN  Flatten([i \in DOMAIN h[n].query.from |-> sub(h[n].query.from[i])])

\* no subqueryPushdown call in progress
Idle == [memo |-> {}, pending |-> <<>>, selected |-> <<>>, visits |-> 0,
         thrown |-> FALSE]

\* subqueryPushdown(query, cols) entered (lines 325 and 334): an empty memo
\* and the call pushdown(query) to make
pushdownCall(q) == [Idle EXCEPT !.pending = << q >>]

\* an inner function that never finds a query in the memo
seen_never(w, q) == FALSE

\* the memo test of the inner function (line 327)
seen(w, q) == q \in w.memo

\* one call of the inner function pushdown (lines 326-333) with the calls still
\* to make after it: the walk and the heap after the call's own statements,
\* the calls of its forEach placed before those that were pending.  A value
\* that is no query has neither select nor subqueries, and forEach of
\* undefined throws
pushdownVisit(h, w, cols) ==
  LET q == Head(w.pending)
      rest == Tail(w.pending)
  IN  IF seen(w, q)
      THEN [heap |-> h, walk |-> [w EXCEPT !.pending = rest, !.visits = @ + 1]]
      ELSE IF ~isQuery(q)
      THEN [heap |-> h,
            walk |-> [w EXCEPT !.memo = @ \cup {q}, !.pending = <<>>,
                               !.visits = @ + 1, !.thrown = TRUE]]
      ELSE IF Len(h[q.id].query.from) > 0
      THEN [heap |-> Query_select(h, q.id, cols),
            walk |-> [w EXCEPT !.memo = @ \cup {q},
                               !.selected = Append(@, q),
                               !.visits = @ + 1,
                               !.pending = Query_subqueries(h, q.id) \o rest]]
      ELSE [heap |-> h,
            walk |-> [w EXCEPT !.memo = @ \cup {q}, !.visits = @ + 1,
                               !.pending = Query_subqueries(h, q.id) \o rest]]

(***************************************************************************)
(* DataCubeInfo.query and the predicate generators of activeColumns.       *)
(***************************************************************************)
\* isBetween(field, range) of the SQL package for a column name and two
\* expressions: the expression (field BETWEEN lo AND hi)
isBetween(field, range) ==
  sql(<<"(">> \o quoted(field) \o <<" BETWEEN ">> \o ExprToString(range[1])
        \o <<" AND ">> \o ExprToString(range[2]) \o <<")">>,
      <<field>>)

\* and(clauses) of the SQL package for two or more clauses
and(clauses) ==
  sql(<<"(">> \o Join(Map1(ExprToString, clauses), <<" AND ">>) \o <<")">>,
      Flatten([i \in DOMAIN clauses |-> clauses[i].columns]))

\* the SQL expression a bin function returns for a number (line 276)
binValue(b, n) ==
  sql(<<b.fn, "(">> \o b.s \o <<"(">> \o NumberToString(n, 1) \o b.d
        \o <<")", ")", "::INTEGER">>,
      <<>>)

\* range.map(bin) of lines 234 and 241
binRange(b, range) == [i \in DOMAIN range |-> binValue(b, range[i])]

\* active.predicate(p): the predicate generators of lines 222, 234 and 239-243
activePredicate(activeCols, p) ==
  CASE activeCols.predicate.type = "point" -> p
    [] activeCols.predicate.type = "interval" ->
         IF p = null THEN Arr(<<>>)
         ELSE isBetween(<<"active", "0">>, binRange(activeCols.predicate.bins[1], p.range))
    [] activeCols.predicate.type = "intervals" ->
         IF p = null THEN Arr(<<>>)
         ELSE and([i \in DOMAIN p.children.value |->
                     isBetween(<<"active">> \o Digits(i - 1),
                               binRange(activeCols.predicate.bins[i],
                                        p.children.value[i].range))])

\* expr.flat() for the one argument of a where call (Query.js line 233)
flat(arg) == IF arg.type = "array" THEN arg.value ELSE <<arg>>

\* query(predicate) applying where to the select template itself, no clone
cube_query_shared(info, predicate) ==
  [info |-> [info EXCEPT !.select =
                where(info.select, flat(activePredicate(info.active, predicate)))],
   ret |-> where(info.select, flat(activePredicate(info.active, predicate)))]

\* DataCubeInfo.query(predicate): the query returned and the DataCubeInfo
\* after the call; where assigns a new list to the clone, and the clone is
\* another object than the select template
cube_query(info, predicate) ==
  [info |-> info,
   ret |-> where(clone(info.select), flat(activePredicate(info.active, predicate)))]

(***************************************************************************)
(* The indexer.  An operation is an operator from the indexer's fields     *)
(* (self) and its arguments to an outcome: the fields after it, what it    *)
(* returns, and what it asked of the coordinator.                          *)
(***************************************************************************)
EmptyMap == [c \in {} |-> null]

\* the constructor
DataCubeIndexer(schema, enabled) ==
  [indexes |-> EmptyMap, active |-> null, schema |-> schema, enabled |-> enabled]

Outcome(self, ret, exec, stored) ==
  [self |-> self, ret |-> ret, exec |-> exec, stored |-> stored]

\* a clear() that forgets the active columns and keeps the entries
clear_activeOnly(self) == [self EXCEPT !.active = null]

\* clear()
clear(self) == [self EXCEPT !.indexes = EmptyMap, !.active = null]

\* set enabled(state) without the clear() of line 61
set_enabled_keep(self, state) ==
  Outcome([self EXCEPT !.enabled = state], null, <<>>, {})

\* set enabled(state)
set_enabled(self, state) ==
  IF self.enabled # state
  THEN Outcome([(IF ~state THEN clear(self) ELSE self) EXCEPT !.enabled = state],
               null, <<>>, {})
  ELSE Outcome(self, null, <<>>, {})

\* set schema(schema) without the clear() of line 83
set_schema_keep(self, schema) ==
  Outcome([self EXCEPT !.schema = schema], null, <<>>, {})

\* set schema(schema)
set_schema(self, schema) ==
  IF self.schema # schema
  THEN Outcome([clear(self) EXCEPT !.schema = schema], null, <<>>, {})
  ELSE Outcome(self, null, <<>>, {})

\* the argument of an exec call: one statement, or an array of statements
Exec(array, statements) == [array |-> array, statements |-> statements]

Promise(f) == [type |-> "promise", id |-> f]

\* the statement dropIndexTables submits
dropStatement(schema) ==
  Statement(<<"DROP SCHEMA IF EXISTS ">> \o quoted(schema) \o <<" CASCADE">>)

\* dropIndexTables() without the clear() of line 106
dropIndexTables_keep(self, future) ==
  Outcome(self, future, << Exec(FALSE, << dropStatement(self.schema) >>) >>, {})

\* dropIndexTables(); future is the promise the exec call returns
dropIndexTables(self, future) ==
  Outcome(clear(self), future, << Exec(FALSE, << dropStatement(clear(self).schema) >>) >>,
          {})

\* the statements of the DDL with the table first
ddl_tableFirst(schema, info) ==
  << create(info.table, info.create, FALSE),
     Statement(<<"CREATE SCHEMA IF NOT EXISTS ">> \o schema) >>

\* the array of statements index submits for a new DataCubeInfo
ddl(schema, info) ==
  << Statement(<<"CREATE SCHEMA IF NOT EXISTS ">> \o schema),
     create(info.table, info.create, FALSE) >>

\* a comparison of sources that never sees a change
sourceSame(self, source) == FALSE

\* the clause source changed since the active columns were cached
sourceChanged(self, source) == self.active.source # source

\* a lookup that never finds an entry
hasNoIndex(self, client) == FALSE

\* the indexer holds an entry for the client
hasIndex(self, client) == client \in DOMAIN self.indexes

\* the entry made without asking selection.skip (line 178)
entry_noSkip(self, client, selection, future) ==
  IF indexColumns(client) = null THEN null
  ELSE [dataCubeInfo(client_query(client, selection.filter), self.active,
                     indexColumns(client), self.schema)
          EXCEPT !.result = future]

\* the entry made from the client's query without the filter (line 184)
entry_noFilter(self, client, selection, future) ==
  IF indexColumns(client) = null THEN null
  ELSE IF selection.skip THEN Skip
  ELSE [dataCubeInfo(client_query(client, <<>>), self.active,
                     indexColumns(client), self.schema)
          EXCEPT !.result = future]

\* the entry index stores for a client that has none (lines 173-191)
entry(self, client, selection, future) ==
  IF indexColumns(client) = null THEN null
  ELSE IF selection.skip THEN Skip
  ELSE [dataCubeInfo(client_query(client, selection.filter), self.active,
                     indexColumns(client), self.schema)
          EXCEPT !.result = future]

\* lines 186-194 with the entry returned before it is stored
store_late(self, client, info) ==
  Outcome(self, info,
          IF info.type = "DataCubeInfo" THEN << Exec(TRUE, ddl(self.schema, info)) >>
          ELSE <<>>,
          {})

\* lines 186-194 for the entry made: the exec call of a new DataCubeInfo, the
\* entry stored and returned
store(self, client, info) ==
  Outcome([self EXCEPT !.indexes = (client :> info) @@ self.indexes],
          info,
          IF info.type = "DataCubeInfo" THEN << Exec(TRUE, ddl(self.schema, info)) >>
          ELSE <<>>,
          {client})

\* index, from the lookup of the client's entry on (lines 167-194)
index_client(self, client, selection, future) ==
  IF hasIndex(self, client)
  THEN Outcome(self, self.indexes[client], <<>>, {})
  ELSE store(self, client, entry(self, client, selection, future))

\* index, from the active columns of the call on (lines 159-194); analysed is
\* the cached active columns, or activeColumns(activeClause) when none is cached
index_analysed(self, analysed, client, selection, future) ==
  IF analysed = TypeError THEN Outcome(self, TypeError, <<>>, {})
  ELSE IF analysed.source = null
  THEN Outcome([self EXCEPT !.active = analysed], null, <<>>, {})
  ELSE index_client([self EXCEPT !.active = analysed], client, selection, future)

\* index, from line 152 on; wasActive tells that active columns were cached
\* when the call began
index_cached(wasActive, self, client, selection, activeClause, future) ==
  IF wasActive /\ self.active # null /\ self.active.source = null
  THEN Outcome(self, null, <<>>, {})
  ELSE index_analysed(self,
                      IF self.active # null THEN self.active
                      ELSE activeColumns(activeClause),
                      client, selection, future)

\* index from line 145 on, a change of source unsetting the active columns and
\* keeping the entries
index_active_keep(self, client, selection, activeClause, future) ==
  index_cached(self.active # null,
               IF self.active # null /\ sourceChanged(self, activeClause.source)
               THEN [self EXCEPT !.active = null] ELSE self,
               client, selection, activeClause, future)

\* index, from the check of the cached active columns on (lines 145-194)
index_active(self, client, selection, activeClause, future) ==
  index_cached(self.active # null,
               IF self.active # null /\ sourceChanged(self, activeClause.source)
               THEN clear(self) ELSE self,
               client, selection, activeClause, future)

\* index without the check of the clause source (line 143)
index_anySource(self, client, selection, activeClause, future) ==
  IF ~self.enabled THEN Outcome(self, null, <<>>, {})
  ELSE index_active(self, client, selection, activeClause, future)

\* index(client, selection, activeClause); future is the promise an exec call
\* of this invocation returns
index(self, client, selection, activeClause, future) ==
  IF ~self.enabled THEN Outcome(self, null, <<>>, {})
  ELSE IF activeClause.source = null THEN Outcome(self, null, <<>>, {})
  ELSE index_active(self, client, selection, activeClause, future)

(***************************************************************************)
(* The state machine.  execs is the coordinator's log of exec calls and    *)
(* futures the state of the promise of each; reactions holds the promises  *)
(* whose catch handler (line 190) has not run, errors what the logger got. *)
(* populatedBy and last are history: the clause source of the call that    *)
(* stored each entry of indexes, and the latest call of the API with its   *)
(* arguments, its return value, what it submitted and, for an index call,  *)
(* the state of the promises when it was made.                             *)
(***************************************************************************)
Self == [indexes |-> indexes, active |-> active, schema |-> _schema,
         enabled |-> _enabled]

Call(op, args, ret, exec, settled) ==
  [op |-> op, args |-> args, ret |-> ret, exec |-> exec, futures |-> settled]

\* the clients, clauses and selections the calls of Spec are drawn from
SpecClauses ==
  { Clause("point", Source(1)), Clause("point", Source(2)),
    Clause("unsupported", Source(1)), Clause("nochildren", Source(2)),
    Clause("point", null), Clause("nochildren", null) }
SpecSelections == [skip : BOOLEAN, filter : { <<>> }]
SpecClients == {"c2", "c3"}

Init ==
  /\ _enabled \in BOOLEAN
  /\ _schema \in Schemas
  /\ active = null
  /\ indexes = EmptyMap
  /\ execs = <<>>
  /\ futures = <<>>
  /\ reactions = {}
  /\ errors = <<>>
  /\ populatedBy = EmptyMap
  /\ last = Call("new", <<>>, null, <<>>, <<>>)
  /\ heap = <<>>
  /\ walk = Idle

\* the effect of an operation's outcome on the state
Apply(o, op, args, source, catch) ==
  /\ UNCHANGED <<heap, walk>>
  /\ Len(execs) + Len(o.exec) <= MaxExecs
  /\ _enabled' = o.self.enabled
  /\ _schema' = o.self.schema
  /\ active' = o.self.active
  /\ indexes' = o.self.indexes
  /\ execs' = execs \o o.exec
  /\ futures' = futures \o [i \in DOMAIN o.exec |-> "pending"]
  /\ reactions' = IF catch /\ o.exec # <<>> THEN reactions \cup {Len(execs) + 1}
                  ELSE reactions
  /\ errors' = errors
  /\ populatedBy' =
       [c \in DOMAIN o.self.indexes |->
          IF c \in o.stored THEN source ELSE populatedBy[c]]
  /\ last' = Call(op, args, o.ret, o.exec,
                  IF op = "index" THEN futures ELSE <<>>)

Index(client, selection, activeClause) ==
  \E o \in { index(Self, client, selection, activeClause, Promise(Len(execs) + 1)) } :
    Apply(o, "index",
          [client |-> client, selection |-> selection, clause |-> activeClause],
          activeClause.source, TRUE)

SetEnabled(state) ==
  \E o \in { set_enabled(Self, state) } :
    Apply(o, "set enabled", [state |-> state], null, FALSE)

SetSchema(schema) ==
  \E o \in { set_schema(Self, schema) } :
    Apply(o, "set schema", [schema |-> schema], null, FALSE)

Clear ==
  \E o \in { Outcome(clear(Self), null, <<>>, {}) } :
    Apply(o, "clear", <<>>, null, FALSE)

DropIndexTables ==
  \E o \in { dropIndexTables(Self, Promise(Len(execs) + 1)) } :
    Apply(o, "dropIndexTables", <<>>, null, FALSE)

Next ==
  \/ \E client \in SpecClients, selection \in SpecSelections,
        activeClause \in SpecClauses :
       Index(client, selection, activeClause)
  \/ \E state \in BOOLEAN : SetEnabled(state)
  \/ \E schema \in Schemas : SetSchema(schema)
  \/ Clear
  \/ DropIndexTables

Spec == Init /\ [][Next]_vars

(***************************************************************************)
(* The promises of the exec calls settle while the API is in use.          *)
(***************************************************************************)
\* the coordinator settles the promise of an exec call
Resolve(f) ==
  /\ UNCHANGED <<heap, walk>>
  /\ futures[f] = "pending"
  /\ futures' = [futures EXCEPT ![f] = "resolved"]
  /\ reactions' = reactions \ {f}
  /\ UNCHANGED <<_enabled, _schema, active, indexes, execs, errors, populatedBy, last>>

Reject(f) ==
  /\ UNCHANGED <<heap, walk>>
  /\ futures[f] = "pending"
  /\ futures' = [futures EXCEPT ![f] = "rejected"]
  /\ UNCHANGED <<_enabled, _schema, active, indexes, execs, reactions, errors,
                 populatedBy, last>>

\* a handler that stays registered after it ran
Catch_again(f) ==
  /\ UNCHANGED <<heap, walk>>
  /\ futures[f] = "rejected"
  /\ f \in reactions
  /\ Len(errors) < 3
  /\ errors' = Append(errors, [type |-> "error", of |-> f])
  /\ UNCHANGED <<_enabled, _schema, active, indexes, execs, futures, reactions,
                 populatedBy, last>>

\* a handler that evicts the entries when it logs the error
Catch_clear(f) ==
  /\ UNCHANGED <<heap, walk>>
  /\ futures[f] = "rejected"
  /\ f \in reactions
  /\ reactions' = reactions \ {f}
  /\ errors' = Append(errors, [type |-> "error", of |-> f])
  /\ indexes' = EmptyMap
  /\ active' = null
  /\ populatedBy' = EmptyMap
  /\ UNCHANGED <<_enabled, _schema, execs, futures, last>>

\* the handler of line 190 runs for a rejected promise
Catch(f) ==
  /\ UNCHANGED <<heap, walk>>
  /\ futures[f] = "rejected"
  /\ f \in reactions
  /\ reactions' = reactions \ {f}
  /\ errors' = Append(errors, [type |-> "error", of |-> f])
  /\ UNCHANGED <<_enabled, _schema, active, indexes, execs, futures, populatedBy, last>>

\* the clients, clauses and selections the calls of SpecSettle are drawn from
SettleClients == {"c1"}
SettleClauses == { Clause("point", Source(1)), Clause("point", Source(2)) }
SettleSelections == [skip : {FALSE}, filter : { <<>> }]

NextSettle ==
  \/ \E client \in SettleClients, selection \in SettleSelections,
        activeClause \in SettleClauses :
       Index(client, selection, activeClause)
  \/ \E state \in BOOLEAN : SetEnabled(state)
  \/ \E schema \in Schemas : SetSchema(schema)
  \/ Clear
  \/ DropIndexTables
  \/ \E f \in DOMAIN futures : Resolve(f)
  \/ \E f \in DOMAIN futures : Reject(f)
  \/ \E f \in DOMAIN futures : Catch(f)

SpecSettle == Init /\ [][NextSettle]_vars

(***************************************************************************)
(* Queries made from the DataCubeInfo entries between index calls.  The    *)
(* predicates are those a clause of the kind of the entry's active columns *)
(* takes: a value test, an interval, a pair of intervals, or none.         *)
(***************************************************************************)
PointPredicates ==
  { sql(quoted(<<"category">>) \o <<" = ", v>>, << <<"category">> >>) :
      v \in {"'a'", "'b'"} }
IntervalPredicates ==
  { [type |-> "predicate", range |-> r] : r \in { <<20, 40>>, <<30, 60>> } }
IntervalsPredicates ==
  { [type |-> "predicate", children |-> Arr(<< Child(X, r[1], r[2]), Child(Y, 12, 15) >>)] :
      r \in { <<20, 40>>, <<30, 60>> } }

\* a DataCubeInfo.query call on the entry of a client
QueryCall(client, predicate) ==
  /\ UNCHANGED <<heap, walk>>
  /\ client \in DOMAIN indexes
  /\ indexes[client].type = "DataCubeInfo"
  /\ \E o \in { cube_query(indexes[client], predicate) } :
       /\ indexes' = [indexes EXCEPT ![client] = o.info]
       /\ last' = Call("query", [client |-> client, predicate |-> predicate],
                       o.ret, <<>>, <<>>)
  /\ UNCHANGED <<_enabled, _schema, active, execs, futures, reactions, errors,
                 populatedBy>>

Query(client) ==
  /\ active # null
  /\ \/ QueryCall(client, null)
     \/ /\ active.predicate.type = "point"
        /\ \E p \in PointPredicates : QueryCall(client, p)
     \/ /\ active.predicate.type = "interval"
        /\ \E p \in IntervalPredicates : QueryCall(client, p)
     \/ /\ active.predicate.type = "intervals"
        /\ \E p \in IntervalsPredicates : QueryCall(client, p)

QueryClients == {"c1", "c2"}
QueryClauses ==
  { Clause("point", Source(1)), Clause("interval", Source(2)),
    Clause("intervals", Source(3)) }

NextQuery ==
  \/ \E client \in QueryClients, selection \in SettleSelections,
        activeClause \in QueryClauses :
       Index(client, selection, activeClause)
  \/ \E client \in QueryClients : Query(client)

SpecQuery == Init /\ [][NextQuery]_vars

(***************************************************************************)
(* Index calls with clauses of one source between changes of the schema.   *)
(***************************************************************************)
SchemaClients == {"c1", "c2", "c4"}
SchemaClauses == { Clause("point", Source(1)), Clause("intervals", Source(1)) }

NextSchema ==
  \/ \E client \in SchemaClients, selection \in SettleSelections,
        activeClause \in SchemaClauses :
       Index(client, selection, activeClause)
  \/ \E schema \in Schemas : SetSchema(schema)

SpecSchema == Init /\ [][NextSchema]_vars

(***************************************************************************)
(* A run of index calls and nothing else: two clients with the same query  *)
(* and index columns, selections with either filter, clauses of two        *)
(* sources.                                                                *)
(***************************************************************************)
IndexClients == {"c1", "c4"}
IndexClauses ==
  { Clause("point", Source(1)), Clause("point", Source(2)),
    Clause("unsupported", Source(1)) }

NextIndex ==
  \E client \in IndexClients, selection \in Selections, activeClause \in IndexClauses :
    Index(client, selection, activeClause)

SpecIndex == Init /\ [][NextIndex]_vars

(***************************************************************************)
(* The planner on its own: the construction query of dataCubeInfo for      *)
(* client queries over a table, over one subquery, over two subqueries,    *)
(* over a subquery of a subquery and over a table joined to a subquery.    *)
(***************************************************************************)
\* a query selecting columns from a table or from subqueries
Rows(cols, sources) == select(from(NewQuery, sources), Map1(Str, cols))

\* an aggregate client query over the given FROM entries
Aggregate(sources) ==
  groupby(select(from(NewQuery, sources),
                 << Str(<<"year">>),
                    Object(<< [key |-> <<"s">>, value |-> Sum(<<"sales">>)] >>) >>),
          << Str(<<"year">>) >>)

PlanQueries ==
  { Aggregate(<< Str(<<"tbl">>) >>),
    Aggregate(<< Rows(<< <<"year">>, <<"sales">> >>, << Str(<<"tbl">>) >>) >>),
    Aggregate(<< Rows(<< <<"year">>, <<"sales">> >>, << Str(<<"tbl">>) >>),
                 Rows(<< <<"year">>, <<"region">> >>, << Str(<<"dim">>) >>) >>),
    Aggregate(<< Rows(<< <<"year">>, <<"sales">> >>,
                      << Rows(<< <<"year">>, <<"sales">>, <<"region">> >>,
                              << Str(<<"tbl">>) >>) >>) >>),
    Aggregate(<< Str(<<"dim">>),
                 Rows(<< <<"year">>, <<"sales">> >>, << Str(<<"tbl">>) >>) >>) }

PlanShapes == {"point", "interval", "intervals"}
PlanClients == {"c1", "c2"}

\* lines 290-304 of dataCubeInfo for a client query, the active columns of a
\* clause and the index columns of a client
Plan(clientQuery, shape, client) ==
  /\ UNCHANGED <<heap, walk>>
  /\ last' = Call("dataCubeInfo",
                  [query |-> clientQuery,
                   active |-> activeColumns(Clause(shape, Source(1))),
                   indexCols |-> indexColumns(client)],
                  cubeQuery(clientQuery, activeColumns(Clause(shape, Source(1))),
                            indexColumns(client)),
                  <<>>, <<>>)
  /\ UNCHANGED <<_enabled, _schema, active, indexes, execs, futures, reactions,
                 errors, populatedBy>>

NextPlan ==
  \E clientQuery \in PlanQueries, shape \in PlanShapes, client \in PlanClients :
    Plan(clientQuery, shape, client)

SpecPlan == Init /\ [][NextPlan]_vars

(***************************************************************************)
(* The analyzer on its own, over the clauses of every shape.               *)
(***************************************************************************)
Analyze(clause) ==
  /\ UNCHANGED <<heap, walk>>
  /\ last' = Call("activeColumns", [clause |-> clause], activeColumns(clause),
                  <<>>, <<>>)
  /\ UNCHANGED <<_enabled, _schema, active, indexes, execs, futures, reactions,
                 errors, populatedBy>>

NextAnalyze == \E clause \in Clauses : Analyze(clause)

SpecAnalyze == Init /\ [][NextAnalyze]_vars

(***************************************************************************)
(* Query graphs and the push-down walk.  A program builds Query objects    *)
(* with new Query(), from and with, and calls subqueryPushdown on one of   *)
(* them; the call is synchronous, so nothing else runs until it returns.   *)
(***************************************************************************)
MaxQueries == 3
MaxFrom == 3
MaxWith == 1
\* the inner function is called once for the root and once for each FROM
\* entry of an object it had not seen, so an unmemoized walk is cut here
MaxVisits == MaxQueries * MaxFrom + 1

\* the table names of FROM references, the CTE names, the pushed columns
GraphTables == { <<"a">>, <<"constructor">> }
GraphCtes == { <<"a">> }
GraphCols == << Str(<<"x">>) >>

indexerVars == <<_enabled, _schema, active, indexes, execs, futures, reactions,
                 errors, populatedBy, last>>

\* an indexer constructed with its default options (lines 42-43)
InitGraph == Init /\ _enabled /\ _schema = <<"mosaic">>

\* true until the push-down call: the graph is still being built
Building == walk = Idle

\* the FROM entries of all the objects
FromEntries == Flatten([n \in DOMAIN heap |-> heap[n].query.from])

NewQ ==
  /\ Building
  /\ Len(heap) < MaxQueries
  /\ heap' = Query_new(heap)
  /\ UNCHANGED <<indexerVars, walk>>

From(n, e) ==
  /\ Building
  /\ Len(FromEntries) < MaxFrom
  /\ heap' = Query_from(heap, n, e)
  /\ UNCHANGED <<indexerVars, walk>>

With(n, as, p) ==
  /\ Building
  /\ Len(heap) < MaxQueries
  /\ Len(heap[n].query.with) < MaxWith
  /\ heap' = Query_with(heap, n, as, p)
  /\ UNCHANGED <<indexerVars, walk>>

\* subqueryPushdown(query, cols) is called
Pushdown(n) ==
  /\ Building
  /\ walk' = pushdownCall(Obj(n))
  /\ UNCHANGED <<indexerVars, heap>>

\* the next call of the inner function runs
Visit ==
  /\ walk.pending # <<>>
  /\ walk.visits < MaxVisits
  /\ \E o \in { pushdownVisit(heap, walk, GraphCols) } :
       /\ heap' = o.heap
       /\ walk' = o.walk
  /\ UNCHANGED indexerVars

NextGraph ==
  \/ NewQ
  \/ \E n \in DOMAIN heap, name \in GraphTables : From(n, Str(name))
  \/ \E n \in DOMAIN heap, m \in DOMAIN heap : From(n, Obj(m))
  \/ \E n \in DOMAIN heap, as \in GraphCtes, p \in DOMAIN heap : With(n, as, p)
  \/ \E n \in DOMAIN heap : Pushdown(n)
  \/ Visit

SpecGraph == InitGraph /\ [][NextGraph]_vars

\* the call runs to its end once entered
SpecGraphLive == SpecGraph /\ WF_vars(Visit)

(***************************************************************************)
(* Query.select on its own: queries with a select list, and argument lists *)
(* of column names, column references, [alias, expression] pairs and       *)
(* objects, as the push-down and the planner pass them.                    *)
(***************************************************************************)
SelectQueries ==
  { NewQuery,
    Rows(<< <<"x">> >>, << Str(<<"tbl">>) >>),
    Rows(<< <<"x">>, <<"y">> >>, << Str(<<"tbl">>) >>),
    Rows(<< <<"y">>, <<"x">>, <<"z">> >>, << Str(<<"tbl">>) >>),
    Aggregate(<< Str(<<"tbl">>) >>) }

SelectItems ==
  { Str(<<"x">>), Str(<<"y">>), Str(<<"year">>), column(<<"x">>),
    Arr(<< <<"x">>, Sum(<<"x">>) >>), Arr(<< <<"y">>, null >>),
    Object(<< [key |-> <<"\"", "s", "\"">>, value |-> Sum(<<"x">>)] >>) }

SelectArguments ==
  { <<e>> : e \in SelectItems } \cup { <<e, f>> : e \in SelectItems, f \in SelectItems }

\* q.select(...expr) is called
Select(q, expr) ==
  /\ UNCHANGED <<heap, walk>>
  /\ last' = Call("select", [query |-> q, expr |-> expr], select(q, expr),
                  <<>>, <<>>)
  /\ UNCHANGED <<_enabled, _schema, active, indexes, execs, futures, reactions,
                 errors, populatedBy>>

NextSelect == \E q \in SelectQueries, expr \in SelectArguments : Select(q, expr)

SpecSelect == Init /\ [][NextSelect]_vars

(***************************************************************************)
(* The bin synthesizer on its own: binInterval for a scale, a pixel size   *)
(* and a bin method, and the bins the database computes from its SQL for   *)
(* the ends of a clause range and for a field value.                       *)
(***************************************************************************)
\* a linear scale whose range runs downwards, as that of a vertical axis
Descending == [type |-> "linear", domain |-> <<12, 16>>, range |-> <<400, 0>>]

BinScales == { Linear, Identity, Descending, Band }
BinPixelSizes == { 1, 2, 4 }
BinMethods ==
  { null } \cup
  { Name(s) : s \in { "floor", "FLOOR", "fLOOr", "ceil", "CEIL", "Ceil", "cEiL",
                      "round", "ROUND", "rounD", "nearest", "Nearest", "",
                      "constructor", "Constructor" } }
BinValues == 9 .. 14

\* the value of FN(x) in the database for x the fraction n/d, d > 0: FLOOR,
\* CEIL, or ROUND, which rounds halves away from zero
rounded(fn, n, d) ==
  CASE fn = "FLOOR" -> n \div d
    [] fn = "CEIL" -> -((-n) \div d)
    [] fn = "ROUND" -> IF n >= 0 THEN (2 * n + d) \div (2 * d)
                       ELSE -((d - 2 * n) \div (2 * d))

\* the value of the expression of line 276 for a number v: the factor
\* a / pixelSize times (v - lo), rounded by fn and cast to INTEGER
binNumber(b, v) == rounded(b.fn, b.num * (v - b.lo), b.den)

\* binInterval(scale, pixelSize, bin) is called, and the bin function it
\* returns is evaluated for the ends of a range and for a value
Bin(scale, pixelSize, bin, range, v) ==
  /\ UNCHANGED <<heap, walk>>
  /\ \E b \in { binInterval(scale, pixelSize, bin) } :
       last' = Call("binInterval",
                    [scale |-> scale, pixelSize |-> pixelSize, bin |-> bin,
                     range |-> range, value |-> v],
                    [bin |-> b,
                     bins |-> IF b # null /\ b.fn \in {"FLOOR", "CEIL", "ROUND"}
                              THEN << binNumber(b, range[1]), binNumber(b, range[2]),
                                      binNumber(b, v) >>
                              ELSE <<>>],
                    <<>>, <<>>)
  /\ UNCHANGED <<_enabled, _schema, active, indexes, execs, futures, reactions,
                 errors, populatedBy>>

\* the function has no state, so one call from the initial state shows all
\* it does
NextBin ==
  /\ last.op = "new"
  /\ \E scale \in BinScales, pixelSize \in BinPixelSizes, bin \in BinMethods,
        x0 \in BinValues, x1 \in BinValues, v \in BinValues :
       x0 <= x1 /\ Bin(scale, pixelSize, bin, <<x0, x1>>, v)

SpecBin == InitGraph /\ [][NextBin]_vars

(***************************************************************************)
(* Index calls for two indexable clients while the promises settle.        *)
(***************************************************************************)
NextOrder ==
  \/ \E client \in IndexClients, selection \in SettleSelections,
        activeClause \in SettleClauses :
       Index(client, selection, activeClause)
  \/ \E f \in DOMAIN futures : Resolve(f)
  \/ \E f \in DOMAIN futures : Reject(f)
  \/ \E f \in DOMAIN futures : Catch(f)

SpecOrder == Init /\ [][NextOrder]_vars

(***************************************************************************)
(* The claims.  In a step of Spec the primed last is the call the step     *)
(* makes and the unprimed state is the state the call was made in.         *)
(***************************************************************************)
IsCube(v) == v.type = "DataCubeInfo"

\* the exec argument of the DDL of a DataCubeInfo under a schema, written out
Batch(schema, info) ==
  [array |-> TRUE,
   statements |->
     << [type |-> "sql", text |-> <<"CREATE SCHEMA IF NOT EXISTS ">> \o schema],
        [type |-> "create", table |-> info.table, query |-> info.create,
         temp |-> FALSE] >>]

\* the exec calls made for a DataCubeInfo since the one that created it
BatchesOf(log, info) ==
  { f \in DOMAIN log :
      /\ f >= info.result.id
      /\ log[f].array
      /\ log[f].statements[2].table = info.table }

\* C1: an index call made with the indexer enabled, for a client that has an
\* entry under the cached active columns and with a clause of the same source,
\* returns that very entry and submits nothing to the coordinator; a
\* DataCubeInfo that index returns is the entry of its client, and exactly one
\* exec call has been made for it since it was created.
C1_Step ==
  /\ ( /\ last'.op = "index"
       /\ _enabled
       /\ active # null
       /\ last'.args.clause.source # null
       /\ active.source = last'.args.clause.source
       /\ last'.args.client \in DOMAIN indexes )
     => /\ last'.ret = indexes[last'.args.client]
        /\ last'.exec = <<>>
        /\ execs' = execs
        /\ indexes' = indexes
  /\ (last'.op = "index" /\ IsCube(last'.ret))
     => /\ last'.args.client \in DOMAIN indexes'
        /\ indexes'[last'.args.client] = last'.ret
        /\ BatchesOf(execs', last'.ret) = { last'.ret.result.id }

C1_SameCubeInfo == [][C1_Step]_vars

\* an index call returned a DataCubeInfo and submitted nothing
C1_Witness ==
  /\ last.op = "index"
  /\ IsCube(last.ret)
  /\ last.exec = <<>>

\* C2: while indexes is non-empty, active.source is the source of the clause of
\* every call that stored an entry still in indexes; after an index call
\* (indexer enabled, clause source not null) every entry was stored by a call
\* with the source of this call and active, if set, was analysed from a clause
\* of this source: entries and active columns of another source are gone.
C2_SourceOfEntries ==
  /\ indexes # EmptyMap
     => /\ active # null
        /\ active.source # null
        /\ \A c \in DOMAIN indexes : populatedBy[c] = active.source
  /\ (last.op = "index" /\ _enabled /\ last.args.clause.source # null)
     => /\ \A c \in DOMAIN indexes : populatedBy[c] = last.args.clause.source
        /\ active # null
           => (active.source = null \/ active.source = last.args.clause.source)

\* two entries stored under the second source, after the cube of the first
\* source was submitted and submitted again
C2_Witness ==
  /\ DOMAIN indexes = {"c2", "c3"}
  /\ active # null
  /\ active.source = Source(2)
  /\ last.op = "index"
  /\ Len(execs) = 2
  /\ execs[1] = execs[2]

\* C3: while enabled is false, active is null and indexes is empty, and an
\* index call made in that state returns null (and submits nothing).
C3_Disabled ==
  ~_enabled
  => /\ active = null
     /\ indexes = EmptyMap
     /\ last.op = "index" => (last.ret = null /\ last.exec = <<>>)

\* an index call on an indexer that was disabled after it had submitted a cube
C3_Witness ==
  /\ ~_enabled
  /\ last.op = "index"
  /\ last.args.clause.source # null
  /\ Len(execs) > 0

\* C4: an index call with a clause whose source is null returns null, whatever
\* the client, the selection and the state of the indexer.
C4_NullSource ==
  (last.op = "index" /\ last.args.clause.source = null)
  => (last.ret = null /\ last.exec = <<>>)

\* such a call on an enabled indexer that holds entries, with a clause that
\* the analyzer cannot read
C4_Witness ==
  /\ last.op = "index"
  /\ last.args.clause = Clause("nochildren", null)
  /\ _enabled
  /\ indexes # EmptyMap

\* the active columns an index call made in this state works with: the cached
\* ones when their source is the source of the clause, else the analysis of
\* the clause
ActiveFor(clause) ==
  IF active # null /\ active.source = clause.source THEN active
  ELSE activeColumns(clause)

\* the entries an index call made in this state finds
IndexesFor(clause) ==
  IF active # null /\ active.source = clause.source THEN indexes ELSE EmptyMap

\* the step is an index call that is the first for its client under the active
\* columns of the call: indexer enabled, clause indexable, no entry
FirstCall ==
  /\ last'.op = "index"
  /\ _enabled
  /\ last'.args.clause.source # null
  /\ ActiveFor(last'.args.clause) # TypeError
  /\ ActiveFor(last'.args.clause).source # null
  /\ last'.args.client \notin DOMAIN IndexesFor(last'.args.clause)

\* C5: the first index call for a client under the active columns of the call
\* stores and returns null when indexColumns(client) is null, else Skip when
\* selection.skip answers true, else a new DataCubeInfo whose DDL it submits
\* in one exec call; every value in indexes is null, Skip or a DataCubeInfo,
\* and only a call that returns a DataCubeInfo submits anything.
C5_Step ==
  /\ FirstCall
     => /\ last'.args.client \in DOMAIN indexes'
        /\ indexes'[last'.args.client] = last'.ret
        /\ IF indexColumns(last'.args.client) = null
           THEN last'.ret = null /\ last'.exec = <<>>
           ELSE IF last'.args.selection.skip
           THEN last'.ret = Skip /\ last'.exec = <<>>
           ELSE /\ IsCube(last'.ret)
                /\ Len(last'.exec) = 1
                /\ execs' = execs \o last'.exec
  /\ \A c \in DOMAIN indexes' :
       indexes'[c] = null \/ indexes'[c] = Skip \/ IsCube(indexes'[c])
  /\ (last'.op = "index" /\ last'.exec # <<>>) => IsCube(last'.ret)

C5_EntryValues == [][C5_Step]_vars

\* null stored for c3 beside the DataCubeInfo that the latest call created for
\* c2, the second creation of the run
C5_Witness ==
  /\ "c3" \in DOMAIN indexes
  /\ indexes["c3"] = null
  /\ "c2" \in DOMAIN indexes
  /\ IsCube(indexes["c2"])
  /\ last.op = "index"
  /\ last.args.client = "c2"
  /\ last.exec # <<>>
  /\ Len(execs) = 2

\* C6: an index call that creates a DataCubeInfo makes exactly one exec call,
\* with the array [CREATE SCHEMA IF NOT EXISTS <schema>, create(table, create,
\* {temp: false})] in this order, and the promise of that call is the result
\* of the DataCubeInfo it stores and returns; every DataCubeInfo in indexes has
\* as result the promise of the exec call that submitted its DDL.
C6_DdlBatch ==
  /\ (last.op = "index" /\ IsCube(last.ret))
     => \/ /\ last.exec = <<>>
           /\ last.ret.result.id \in DOMAIN execs
        \/ /\ last.exec = << Batch(_schema, last.ret) >>
           /\ last.ret.result = [type |-> "promise", id |-> Len(execs)]
           /\ execs[Len(execs)] = last.exec[1]
  /\ \A c \in DOMAIN indexes :
       IsCube(indexes[c])
       => /\ indexes[c].result.type = "promise"
          /\ indexes[c].result.id \in DOMAIN execs
          /\ execs[indexes[c].result.id] = Batch(_schema, indexes[c])

\* an index call has just created the second DataCubeInfo of the run
C6_Witness ==
  /\ last.op = "index"
  /\ IsCube(last.ret)
  /\ last.exec # <<>>
  /\ last.ret.result.id = 2

\* the errors the logger got for the promise f
Logged(log, f) == { i \in DOMAIN log : log[i].of = f }

\* the step settles a promise or runs a handler: no call of the API
SettleStep == execs' = execs /\ (futures' # futures \/ errors' # errors)

\* the step is a call of the API that evicts every entry, or an index call
\* with a clause of another source than the cached one
EvictingCall ==
  /\ last' # last
  /\ \/ last'.op \in {"clear", "dropIndexTables", "set enabled", "set schema"}
     \/ /\ last'.op = "index"
        /\ active # null
        /\ last'.args.clause.source # active.source

\* C7: when the promise of the DDL of a cached DataCubeInfo is rejected, the
\* logger gets the error exactly once; settling a promise and logging leave
\* the entries and the active columns as they are; an index call for the
\* client with a clause of the same source then returns the same DataCubeInfo,
\* its result still rejected, and submits nothing; the entry goes only by
\* clear(), dropIndexTables(), a set of enabled or schema, or an index call
\* with a clause of another source.
C7_Step ==
  /\ \A f \in DOMAIN futures' :
       (execs'[f].array /\ futures'[f] = "rejected" /\ f \notin reactions')
       => Cardinality(Logged(errors', f)) = 1
  /\ \A i \in DOMAIN errors' :
       /\ futures'[errors'[i].of] = "rejected"
       /\ Logged(errors', errors'[i].of) = {i}
  /\ SettleStep => (indexes' = indexes /\ active' = active)
  /\ ( /\ last' # last
       /\ last'.op = "index"
       /\ _enabled
       /\ active # null
       /\ last'.args.clause.source # null
       /\ last'.args.clause.source = active.source
       /\ last'.args.client \in DOMAIN indexes
       /\ IsCube(indexes[last'.args.client])
       /\ futures[indexes[last'.args.client].result.id] = "rejected" )
     => /\ last'.ret = indexes[last'.args.client]
        /\ last'.exec = <<>>
        /\ execs' = execs
        /\ indexes' = indexes
        /\ futures'[last'.ret.result.id] = "rejected"
  /\ \A c \in DOMAIN indexes :
       (IsCube(indexes[c]) /\ (c \notin DOMAIN indexes' \/ indexes'[c] # indexes[c]))
       => EvictingCall

C7_FailedDdlStaysCached == [][C7_Step]_vars

\* an index call made after the promise of the cached DataCubeInfo was
\* rejected returned that DataCubeInfo and submitted nothing, and the logger
\* got the error once
C7_Witness ==
  /\ last.op = "index"
  /\ IsCube(last.ret)
  /\ last.exec = <<>>
  /\ last.futures[last.ret.result.id] = "rejected"
  /\ futures[last.ret.result.id] = "rejected"
  /\ Cardinality(Logged(errors, last.ret.result.id)) = 1
  /\ indexes[last.args.client] = last.ret

\* the clause lacks metadata or carries metadata the analyzer cannot use: no
\* meta, no predicate, no predicate columns, a type other than point and
\* interval, an interval without scales or with a scale that is not supported,
\* one scale and no field, several scales and no children
C8_Malformed(clause) ==
  \/ clause.meta = null
  \/ clause.predicate = null
  \/ clause.predicate.columns = null
  \/ clause.meta.type \notin {"point", "interval"}
  \/ /\ clause.meta.type = "interval"
     /\ \/ clause.meta.scales = null
        \/ \E i \in DOMAIN clause.meta.scales.value :
             clause.meta.scales.value[i].type \notin SupportedScales
        \/ Len(clause.meta.scales.value) = 1 /\ clause.predicate.field = null
        \/ Len(clause.meta.scales.value) > 1 /\ clause.predicate.children = null

\* C8: no index call raises, and an index call with a clause whose metadata is
\* missing or malformed returns null and submits nothing.
C8_NeverThrows ==
  last.op = "index"
  => /\ last.ret # TypeError
     /\ C8_Malformed(last.args.clause) => (last.ret = null /\ last.exec = <<>>)

\* the statement DROP SCHEMA IF EXISTS "<schema>" CASCADE, written out
C9_Drop(schema) ==
  [array |-> FALSE,
   statements |->
     << [type |-> "sql",
         text |-> <<"DROP SCHEMA IF EXISTS ", "\"">> \o schema \o <<"\"", " CASCADE">>] >>]

\* the step is a dropIndexTables call: it leaves indexes empty and active
\* null, keeps the schema, makes one exec call with the one DROP statement for
\* the schema, and returns the promise of that call
C9_DropStep ==
  (last' # last /\ last'.op = "dropIndexTables")
  => /\ indexes' = EmptyMap
     /\ active' = null
     /\ _schema' = _schema
     /\ last'.exec = << C9_Drop(_schema) >>
     /\ execs' = execs \o last'.exec
     /\ last'.ret = [type |-> "promise", id |-> Len(execs')]
     /\ futures'[Len(execs')] = "pending"

\* the step is the first call after a dropIndexTables call, and it is an index
\* call on the enabled indexer with a clause that has a source and is
\* indexable, for an indexable client that the selection does not skip
C9_IndexAfterDrop ==
  /\ last.op = "dropIndexTables"
  /\ last' # last
  /\ last'.op = "index"
  /\ _enabled
  /\ last'.args.clause.source # null
  /\ activeColumns(last'.args.clause) # TypeError
  /\ activeColumns(last'.args.clause).source # null
  /\ indexColumns(last'.args.client) # null
  /\ ~last'.args.selection.skip

\* C9: dropIndexTables() leaves indexes empty and active null and submits
\* exactly one statement, DROP SCHEMA IF EXISTS "<schema>" CASCADE for the
\* current schema, returning its promise; whatever became of that promise, the
\* next call, when it is an index call on the enabled indexer with an
\* indexable clause for an indexable client that is not skipped, submits one
\* new batch: CREATE SCHEMA IF NOT EXISTS <schema>, the schema name not
\* quoted, and then the table DDL.
C9_Step ==
  /\ C9_DropStep
  /\ C9_IndexAfterDrop
     => /\ IsCube(last'.ret)
        /\ last'.exec = << Batch(_schema, last'.ret) >>
        /\ execs' = execs \o last'.exec

C9_DropThenCreate == [][C9_Step]_vars

\* an index call submitted its batch after the promise of the DROP statement,
\* the first exec call of the run, was rejected
C9_Witness ==
  /\ last.op = "index"
  /\ IsCube(last.ret)
  /\ last.exec # <<>>
  /\ Len(execs) = 2
  /\ execs[1] = C9_Drop(_schema)
  /\ last.futures[1] = "rejected"

\* the batch with the schema name of CREATE SCHEMA in double quotes
C9_QuotedBatch(schema, info) ==
  [array |-> TRUE,
   statements |->
     << [type |-> "sql",
         text |-> <<"CREATE SCHEMA IF NOT EXISTS ", "\"">> \o schema \o <<"\"">>],
        [type |-> "create", table |-> info.table, query |-> info.create,
         temp |-> FALSE] >>]

\* C9 as stated: the batch of the index call after dropIndexTables() begins
\* with CREATE SCHEMA IF NOT EXISTS "<schema>", the schema name quoted.
C9_QuotedStep ==
  /\ C9_DropStep
  /\ C9_IndexAfterDrop
     => /\ IsCube(last'.ret)
        /\ last'.exec = << C9_QuotedBatch(_schema, last'.ret) >>
        /\ execs' = execs \o last'.exec

C9_QuotedCreate == [][C9_QuotedStep]_vars

\* the step is a clear() call, a set of enabled to false or a set of schema to
\* another value than the current one
C10_Evicts ==
  \/ last'.op = "clear"
  \/ last'.op = "set enabled" /\ ~last'.args.state
  \/ last'.op = "set schema" /\ last'.args.schema # _schema

\* the latest call was clear() or a set of enabled or of schema and left no
\* entry and no active columns, and the step is an index call with a clause
\* that has a source and is indexable, for an indexable client that the
\* selection does not skip
C10_IndexAfterEviction ==
  /\ last.op \in {"clear", "set enabled", "set schema"}
  /\ indexes = EmptyMap
  /\ active = null
  /\ last'.op = "index"
  /\ last'.args.clause.source # null
  /\ activeColumns(last'.args.clause) # TypeError
  /\ activeColumns(last'.args.clause).source # null
  /\ indexColumns(last'.args.client) # null
  /\ ~last'.args.selection.skip

\* C10: clear(), a set of enabled to false and a set of schema to a new value
\* leave indexes empty and active null and submit nothing; the next call, when
\* it is an index call with an indexable clause for an indexable client that
\* is not skipped, submits the DDL of the client (again, if it was submitted
\* before) provided the indexer is enabled; on the disabled indexer it returns
\* null and submits nothing.
C10_Step ==
  /\ C10_Evicts
     => /\ indexes' = EmptyMap
        /\ active' = null
        /\ last'.exec = <<>>
        /\ execs' = execs
        /\ futures' = futures
  /\ (C10_IndexAfterEviction /\ _enabled)
     => /\ IsCube(last'.ret)
        /\ last'.exec = << Batch(_schema, last'.ret) >>
        /\ execs' = execs \o last'.exec
  /\ (C10_IndexAfterEviction /\ ~_enabled)
     => /\ last'.ret = null
        /\ last'.exec = <<>>
        /\ execs' = execs

C10_EvictionResubmits == [][C10_Step]_vars

\* the DDL of a client was submitted under one schema and, after the schema
\* was set to another value, the latest call submitted it under the new one
C10_Witness ==
  /\ last.op = "index"
  /\ IsCube(last.ret)
  /\ last.exec # <<>>
  /\ Len(execs) = 2
  /\ execs[1].array
  /\ execs[1].statements[2].query = execs[2].statements[2].query
  /\ execs[1].statements[1] # execs[2].statements[1]

\* C10 as stated: after clear(), a set of enabled to false or a set of schema
\* the next index call for an indexable, non-skipped client submits its DDL,
\* whether the indexer is enabled or not.
C10_AlwaysStep ==
  /\ C10_Evicts
     => /\ indexes' = EmptyMap
        /\ active' = null
        /\ last'.exec = <<>>
        /\ execs' = execs
  /\ C10_IndexAfterEviction
     => /\ IsCube(last'.ret)
        /\ last'.exec = << Batch(_schema, last'.ret) >>
        /\ execs' = execs \o last'.exec

C10_AlwaysResubmits == [][C10_AlwaysStep]_vars

\* the step is an index call within an epoch of one clause source: indexer
\* enabled, the clause indexable, its source the source of the cached active
\* columns if any, and the client indexable
EpochCall ==
  /\ last'.op = "index"
  /\ _enabled
  /\ last'.args.clause.source # null
  /\ (active = null \/ active.source = last'.args.clause.source)
  /\ ActiveFor(last'.args.clause) # TypeError
  /\ ActiveFor(last'.args.clause).source # null
  /\ indexColumns(last'.args.client) # null

\* the create string of the triple (clientQuery, active.columns, indexCols)
\* that the index call of the step presents
TripleText ==
  createText(client_query(last'.args.client, last'.args.selection.filter),
             ActiveFor(last'.args.clause), indexColumns(last'.args.client))

\* the create strings of the DataCubeInfo entries of a cache
Created(ix) == { ix[c].create : c \in { d \in DOMAIN ix : IsCube(ix[d]) } }

\* C11: within an epoch of one clause source, the first index call for an
\* indexable client that is not skipped submits the create string of the triple
\* it presents, and the create strings of the entries grow by that string; a
\* call for a client that has an entry submits nothing and changes no entry,
\* whatever triple it presents; a first call for another client submits its
\* create string even when the same string was submitted before.
C11_Step ==
  EpochCall
  => IF last'.args.client \in DOMAIN IndexesFor(last'.args.clause)
     THEN /\ last'.exec = <<>>
          /\ execs' = execs
          /\ indexes' = indexes
     ELSE IF last'.args.selection.skip
     THEN /\ last'.exec = <<>>
          /\ Created(indexes') = Created(IndexesFor(last'.args.clause))
     ELSE /\ IsCube(last'.ret)
          /\ last'.ret.create = TripleText
          /\ last'.exec = << Batch(_schema, last'.ret) >>
          /\ execs' = execs \o last'.exec
          /\ Created(indexes') = Created(IndexesFor(last'.args.clause)) \cup {TripleText}

C11_FirstCallPerClient == [][C11_Step]_vars

\* both clients have submitted the same create string, and the latest call,
\* for a client that has an entry, presented a query with another filter and
\* got the entry back: the create string of its triple was never submitted
C11_Witness ==
  /\ last.op = "index"
  /\ IsCube(last.ret)
  /\ last.exec = <<>>
  /\ last.args.selection.filter # <<>>
  /\ last.ret.create #
       createText(client_query(last.args.client, last.args.selection.filter),
                  last.ret.active, indexColumns(last.args.client))
  /\ Len(execs) = 2
  /\ execs[1] = execs[2]
  /\ DOMAIN indexes = {"c1", "c4"}

\* C11 as stated, call by call: an index call within an epoch that presents a
\* triple submits the create string of the triple if and only if that string
\* was not submitted in the epoch before (the strings submitted in the epoch
\* are those of the entries).
C11_TripleStep ==
  (EpochCall /\ ~last'.args.selection.skip)
  => IF TripleText \in Created(IndexesFor(last'.args.clause))
     THEN last'.exec = <<>>
     ELSE /\ Len(last'.exec) = 1
          /\ last'.exec[1].statements[2].query = TripleText

C11_CreatePerTriple == [][C11_TripleStep]_vars

\* the step is an index call on the enabled indexer with a clause whose source
\* is not the source of the cached active columns
SourceChange ==
  /\ last'.op = "index"
  /\ _enabled
  /\ last'.args.clause.source # null
  /\ active # null
  /\ active.source # last'.args.clause.source

\* the create strings of the batches of a log of exec calls
CreatesOf(log) == { log[i].statements[2].query : i \in { j \in DOMAIN log : log[j].array } }

\* C12: an index call with a clause of another source than the cached one
\* drops every entry of the first source and analyses the clause anew; when the
\* clause and the client are indexable and the client is not skipped it submits
\* one batch, also when the same create string was submitted under the first
\* source: the number of batches is the number of DataCubeInfo objects created,
\* not the number of distinct create strings.
C12_Step ==
  /\ SourceChange
     => /\ \A c \in DOMAIN indexes' :
             c = last'.args.client /\ populatedBy'[c] = last'.args.clause.source
        /\ active' = IF activeColumns(last'.args.clause) = TypeError THEN null
                     ELSE activeColumns(last'.args.clause)
        /\ ( /\ activeColumns(last'.args.clause) # TypeError
             /\ activeColumns(last'.args.clause).source # null
             /\ indexColumns(last'.args.client) # null
             /\ ~last'.args.selection.skip )
           => /\ IsCube(last'.ret)
              /\ last'.exec = << Batch(_schema, last'.ret) >>
              /\ execs' = execs \o last'.exec
  /\ Len(execs') = Len(execs) + (IF last'.exec # <<>> THEN 1 ELSE 0)
  /\ (last' # last /\ last'.op = "index" /\ last'.exec # <<>>) => IsCube(last'.ret)

C12_SourceChangeResubmits == [][C12_Step]_vars

\* after a change of source the latest call submitted, for the only client
\* that has an entry, the create string that was submitted before the change
C12_Witness ==
  /\ last.op = "index"
  /\ last.exec # <<>>
  /\ Len(execs) = 2
  /\ execs[1].statements[2].query = execs[2].statements[2].query
  /\ DOMAIN indexes = {last.args.client}
  /\ populatedBy[last.args.client] = Source(2)
  /\ active.source = Source(2)

\* C12 as stated: when the batches so far are as many as the distinct create
\* strings, they still are after an index call with a clause of another source.
C12_DistinctStep ==
  (SourceChange /\ Len(execs) = Cardinality(CreatesOf(execs)))
  => Len(execs') = Cardinality(CreatesOf(execs'))

C12_BatchPerDistinctCreate == [][C12_DistinctStep]_vars

\* C13: every DataCubeInfo that index returns has the fields id, table, create,
\* active, select, result and skip, with id the FNV-1a hash of create as
\* unsigned 32-bit lowercase hex, table "<schema>.cube_<id>" and skip false.
C13_CubeFields ==
  (last.op = "index" /\ IsCube(last.ret))
  => /\ DOMAIN last.ret =
          {"type", "id", "table", "create", "active", "select", "result", "skip"}
     /\ last.ret.id = toHex(fnv_hash(last.ret.create))
     /\ last.ret.table = _schema \o <<".cube_">> \o last.ret.id
     /\ last.ret.skip = FALSE

\* the schema, the create string, the table and the id of a batch: the schema
\* is what follows CREATE SCHEMA IF NOT EXISTS, the id what follows
\* <schema>.cube_ in the table name
SchemaOfBatch(b) == Tail(b.statements[1].text)
CreateOfBatch(b) == b.statements[2].query
TableOfBatch(b) == b.statements[2].table
IdOfBatch(b) ==
  SubSeq(TableOfBatch(b), Len(SchemaOfBatch(b)) + 2, Len(TableOfBatch(b)))

\* C14: every batch names its table <schema>.cube_<id>; any two batches ever
\* submitted with the same create string have the same id and, when submitted
\* under the same schema, the same table, whichever clients made the calls, in
\* whatever order and whatever was cached; so a schema that is changed and set
\* back gives the table names it gave before.
C14_NameOfCreate ==
  /\ \A i \in DOMAIN execs :
       execs[i].array
       => TableOfBatch(execs[i]) =
            SchemaOfBatch(execs[i]) \o <<".cube_">> \o IdOfBatch(execs[i])
  /\ \A i, j \in DOMAIN execs :
       (execs[i].array /\ execs[j].array
          /\ CreateOfBatch(execs[i]) = CreateOfBatch(execs[j]))
       => /\ IdOfBatch(execs[i]) = IdOfBatch(execs[j])
          /\ SchemaOfBatch(execs[i]) = SchemaOfBatch(execs[j])
             => TableOfBatch(execs[i]) = TableOfBatch(execs[j])

\* the only client that has an entry submitted the create string and the
\* table name that were submitted before under the same schema: the schema was
\* changed and set back in between
C14_Witness ==
  /\ last.op = "index"
  /\ last.exec # <<>>
  /\ Len(execs) = 2
  /\ DOMAIN indexes = {last.args.client}
  /\ CreateOfBatch(execs[1]) = CreateOfBatch(execs[2])
  /\ SchemaOfBatch(execs[1]) = _schema
  /\ TableOfBatch(execs[1]) = last.ret.table

\* the step is a query call on the DataCubeInfo entry of a client
QueryStep == last' # last /\ last'.op = "query"

\* the text of a query has a WHERE clause
HasWhere(text) == \E i \in DOMAIN text : text[i] = "WHERE "

\* C15: a query(p) call on a DataCubeInfo returns
\* select.clone().where(active.predicate(p)): the select template with, as its
\* whole WHERE list, the one term made from p, or no term and no WHERE clause
\* in its text when p is null; it holds no term of the query call before it;
\* the call leaves the DataCubeInfo as it was, and the select template of every
\* DataCubeInfo has an empty WHERE list before and after every call.
C15_Step ==
  /\ QueryStep
     => /\ last'.ret =
             where(clone(indexes[last'.args.client].select),
                   flat(activePredicate(indexes[last'.args.client].active,
                                        last'.args.predicate)))
        /\ [last'.ret EXCEPT !.where = <<>>] = indexes[last'.args.client].select
        /\ Len(last'.ret.where) = IF last'.args.predicate = null THEN 0 ELSE 1
        /\ HasWhere(toString(last'.ret)) <=> last'.args.predicate # null
        /\ (last'.args.predicate # null
              /\ indexes[last'.args.client].active.predicate.type = "point")
           => last'.ret.where = << last'.args.predicate >>
        /\ (last.op = "query" /\ last.args.predicate # last'.args.predicate)
           => \A i \in DOMAIN last.ret.where, j \in DOMAIN last'.ret.where :
                last.ret.where[i] # last'.ret.where[j]
        /\ indexes' = indexes
  /\ \A c \in DOMAIN indexes :
       IsCube(indexes[c]) => indexes[c].select.where = <<>>
  /\ \A c \in DOMAIN indexes' :
       IsCube(indexes'[c]) => indexes'[c].select.where = <<>>

C15_QueryFromTemplate == [][C15_Step]_vars

\* a query call with a pair of intervals returned a query with one WHERE term
\* and left the select template of the entry without any
C15_Witness ==
  /\ last.op = "query"
  /\ last.args.predicate # null
  /\ active.predicate.type = "intervals"
  /\ Len(last.ret.where) = 1
  /\ HasWhere(toString(last.ret))
  /\ indexes[last.args.client].select.where = <<>>
  /\ ~HasWhere(toString(indexes[last.args.client].select))

\* C16: when the latest index call analysed a clause of source S as not
\* indexable (the cached active columns have a null source), an index call
\* with a clause of the same source S returns null, submits nothing and leaves
\* the cached active columns with their null source.
C16_MemoStep ==
  ( /\ last.op = "index"
    /\ last.args.clause.source # null
    /\ active # null
    /\ active.source = null
    /\ last'.op = "index"
    /\ _enabled
    /\ last'.args.clause.source = last.args.clause.source )
  => /\ last'.ret = null
     /\ last'.exec = <<>>
     /\ active' # null
     /\ active'.source = null

C16_UnindexableMemoized == [][C16_MemoStep]_last

\* C17: a step that settles a promise or runs the handler of a rejected one,
\* whenever it comes, changes none of indexes, active, enabled and schema and
\* submits nothing; a call of the API changes the state of no promise that
\* exists, so clear(), a change of source, a set of enabled or of schema and
\* dropIndexTables() cancel nothing, and the promise of an evicted entry
\* settles like any other.
C17_Step ==
  /\ SettleStep
     => /\ indexes' = indexes
        /\ active' = active
        /\ _enabled' = _enabled
        /\ _schema' = _schema
        /\ last' = last
  /\ last' # last
     => /\ \A f \in DOMAIN futures : futures'[f] = futures[f]
        /\ reactions \subseteq reactions'
        /\ errors' = errors
  /\ \A f \in DOMAIN futures :
       futures[f] # "pending" => futures'[f] = futures[f]

C18_Step ==
  /\ Len(execs') >= Len(execs)
  /\ SubSeq(execs', 1, Len(execs)) = execs
  /\ (last' # last /\ last'.op = "index" /\ last'.exec # <<>>)
     => /\ IsCube(last'.ret)
        /\ execs' = execs \o last'.exec
        /\ last'.ret.result = [type |-> "promise", id |-> Len(execs')]
        /\ futures'[Len(execs')] = "pending"
        /\ last'.args.client \in DOMAIN indexes'
        /\ indexes'[last'.args.client] = last'.ret
        /\ \A c \in DOMAIN indexes' \ {last'.args.client} :
             IsCube(indexes'[c])
             => /\ c \in DOMAIN indexes
                /\ indexes[c] = indexes'[c]
                /\ indexes'[c].result.id < last'.ret.result.id
  /\ (last' # last /\ last'.op = "index" /\ last'.exec = <<>>)
     => execs' = execs
  /\ SettleStep
     => /\ execs' = execs
        /\ indexes' = indexes
        /\ active' = active

C18_SubmittedInCallOrder == [][C18_Step]_vars

\* two entries of one epoch, the batch of the earlier call first in the log;
\* the promise of the later batch was settled and the earlier one is pending
C18_Witness ==
  /\ DOMAIN indexes = {"c1", "c4"}
  /\ IsCube(indexes["c1"])
  /\ IsCube(indexes["c4"])
  /\ last.op = "index"
  /\ last.exec # <<>>
  /\ indexes[last.args.client].result.id = 2
  /\ \E c \in DOMAIN indexes : indexes[c].result.id = 1
  /\ futures = <<"pending", "resolved">>

RECURSIVE Descendants(_)
\* the queries reachable from a query through the subquery graph
Descendants(q) ==
  UNION { {subqueries(q)[i]} \cup Descendants(subqueries(q)[i]) :
            i \in DOMAIN subqueries(q) }

\* the base columns the active columns refer to
BaseColumns(activeCols) ==
  UNION { Range(columnsOf(activeCols.columns[i].value)) : i \in DOMAIN activeCols.columns }

\* C19: in the construction query the planner returns, every query reachable
\* from a subquery of it that has a non-empty FROM list selects every base
\* column the active columns refer to.
C19_AllSubqueriesSelect ==
  last.op = "dataCubeInfo"
  => \A sub \in Descendants(last.ret) :
       Len(sub.from) > 0
       => \A col \in BaseColumns(last.args.active) :
            \E i \in DOMAIN sub.select :
              sub.select[i].as = col /\ sub.select[i].expr = column(col)

\* the cases in which the analyzer is to answer with a null source: no meta,
\* no predicate columns, a type other than point and interval, an interval
\* without scales, an interval with a scale that is not supported
C20_NotIndexable(clause) ==
  \/ clause.meta = null
  \/ clause.predicate = null
  \/ clause.predicate.columns = null
  \/ clause.meta.type \notin {"point", "interval"}
  \/ /\ clause.meta.type = "interval"
     /\ \/ clause.meta.scales = null
        \/ \E i \in DOMAIN clause.meta.scales.value :
             clause.meta.scales.value[i].type \notin SupportedScales

\* the names active0, active1, ... of n columns
C20_ActiveNames(n) == [i \in 1..n |-> <<"active">> \o Digits(i - 1)]

\* C20: the analyzer answers with a null source in the cases above; in every
\* other case it answers with the source of the clause and, for a point
\* clause, one column per predicate column under the name of that column, for
\* an interval clause one column active<i> per child of the predicate (one
\* column active0 when the predicate is a single interval).
C20_Analysis ==
  last.op = "activeColumns"
  => IF C20_NotIndexable(last.args.clause)
     THEN last.ret # TypeError /\ last.ret.source = null
     ELSE /\ last.ret # TypeError
          /\ last.ret.source = last.args.clause.source
          /\ IF last.args.clause.meta.type = "point"
             THEN /\ Keys(last.ret.columns) = last.args.clause.predicate.columns.value
                  /\ \A i \in DOMAIN last.ret.columns :
                       last.ret.columns[i].value = column(last.ret.columns[i].key)
             ELSE Keys(last.ret.columns) =
                    C20_ActiveNames(IF last.args.clause.predicate.children = null THEN 1
                                    ELSE Len(last.args.clause.predicate.children.value))

\* the number of select calls the push-down made on a value
Selects(q) == Cardinality({ i \in DOMAIN walk.selected : walk.selected[i] = q })

\* a CTE whose FROM refers to its own name: the object is its own subquery
SelfCte(n) ==
  /\ heap[n].cteFor # null
  /\ \E i \in DOMAIN Query_subqueries(heap, n) : Query_subqueries(heap, n)[i] = Obj(n)

\* C21: subqueryPushdown returns on every query graph, cyclic ones included,
\* having called select on each query at most once: a call that was entered
\* ends (no calls of the inner function remain), no object is selected into
\* twice, and the walk needs fewer inner calls than the model allows.
C21_PushdownTerminates ==
  /\ [](\A n \in DOMAIN heap : Selects(Obj(n)) <= 1)
  /\ [](walk.pending # <<>> => walk.visits < MaxVisits)
  /\ (walk.pending # <<>>) ~> (walk.pending = <<>>)

\* a finished push-down that selected into a CTE which refers to itself, and
\* met it again
C21_Witness ==
  /\ walk # Idle
  /\ walk.pending = <<>>
  /\ ~walk.thrown
  /\ walk.visits > Cardinality(walk.memo)
  /\ \E n \in DOMAIN heap : SelfCte(n) /\ Selects(Obj(n)) = 1

\* the objects whose FROM list holds the n-th object
Nesting(n) ==
  { m \in DOMAIN heap : \E i \in DOMAIN heap[m].query.from :
                          heap[m].query.from[i].from = Obj(n) }

\* the queries enclosing the n-th object: the query whose WITH list it was
\* cloned into, else the queries it is nested in, else (top level) itself
Enclosing(n) ==
  IF heap[n].cteFor # null THEN { heap[n].cteFor.id }
  ELSE IF Nesting(n) # {} THEN Nesting(n)
  ELSE { n }

\* the FROM entries of the n-th object that are queries or that name a CTE of
\* the WITH list of object e, in FROM order
FromQueries(n, e) ==
  LET ctes == heap[e].query.with
      named(name) == { i \in DOMAIN ctes : ctes[i].as = name }
      sub(f) == IF isQuery(f.from) THEN << f.from >>
                ELSE IF named(f.from.table) # {}
                  THEN << ctes[CHOOSE i \in named(f.from.table) :
                                 \A j \in named(f.from.table) : j <= i].query >>
                ELSE <<>>
  IN  Flatten([i \in DOMAIN heap[n].query.from |-> sub(heap[n].query.from[i])])

\* C22: the subqueries of every query of a graph (top level, CTE or nested in
\* a FROM list) are its FROM entries that are queries and its FROM references
\* that name a CTE of the enclosing query's WITH list, in FROM order, and a
\* reference that names no such CTE contributes nothing.
C22_Subqueries ==
  \A n \in DOMAIN heap : \A e \in Enclosing(n) :
    Query_subqueries(heap, n) = FromQueries(n, e)

\* the aliases a select call adds or replaces
AddedAliases(expr) == { selectList(expr)[i].as : i \in DOMAIN selectList(expr) }

\* C23: after a select call with any argument list the select list holds at
\* most one item per alias, every added item that has an expression is in it
\* (in place of any item that had its alias), and the items under the other
\* aliases are those of before, in their order.
C23_OnePerAlias ==
  last.op = "select" =>
    LET before == last.args.query.select
        after == last.ret.select
        list == selectList(last.args.expr)
        other(x) == x.as \notin AddedAliases(last.args.expr)
    IN  /\ \A i, j \in DOMAIN after : after[i].as = after[j].as => i = j
        /\ \A i \in DOMAIN list :
             list[i].expr # null => \E j \in DOMAIN after : after[j] = list[i]
        /\ SelectSeq(after, other) = SelectSeq(before, other)

\* the bin methods that spell ceil and round in some letter case
C24_Ceil == { "ceil", "CEIL", "Ceil", "cEiL" }
C24_Round == { "round", "ROUND", "rounD" }

\* C24: the rounding function of a bin function is CEIL for a bin method that
\* spells ceil in any letter case, ROUND for one that spells round, and FLOOR
\* for every other method, an absent one and any other string included.
C24_RoundingFunction ==
  (last.op = "binInterval" /\ last.ret.bin # null) =>
    last.ret.bin.fn =
      (IF last.args.bin = null THEN "FLOOR"
       ELSE IF last.args.bin.value \in C24_Ceil THEN "CEIL"
       ELSE IF last.args.bin.value \in C24_Round THEN "ROUND"
       ELSE "FLOOR")

\* the name of a table lies in the schema
InSchema(table, schema) ==
  /\ Len(table) > Len(schema)
  /\ SubSeq(table, 1, Len(schema)) = schema
  /\ table[Len(schema) + 1] = ".cube_"

\* C25: in every reachable state each DataCubeInfo stored in indexes has a
\* result (its DDL was submitted), has the indexer's current active columns,
\* whose source is not null, and names a table of the indexer's current
\* schema; and indexes is empty whenever active is null or has a null source.
C25_EntriesOfCurrentActive ==
  /\ \A c \in DOMAIN indexes :
       IsCube(indexes[c]) =>
         /\ indexes[c].result # null
         /\ active # null
         /\ indexes[c].active = active
         /\ active.source # null
         /\ InSchema(indexes[c].table, _schema)
  /\ (active = null \/ active.source = null) => DOMAIN indexes = {}

\* a DataCubeInfo built after a change of schema evicted the entries built
\* under the schema before
C25_Witness ==
  /\ last.op = "index"
  /\ Len(execs) = 2
  /\ \E c \in DOMAIN indexes :
       /\ IsCube(indexes[c])
       /\ last.ret = indexes[c]
       /\ execs[1].array
       /\ ~InSchema(execs[1].statements[2].table, _schema)

\* C26: for a supported scale, a positive pixel size and any of the rounding
\* functions, the bin of a value is monotone non-decreasing in the value, so
\* the bin of a value inside a clause range [x0, x1] lies between the bins of
\* x0 and x1: the test active BETWEEN bin(x0) AND bin(x1) admits every row
\* the interval admits.  bins holds the bins of x0, of x1 and of the value.
C26_BinsMonotone ==
  (last.op = "binInterval" /\ last.ret.bins # <<>>) =>
    LET x0 == last.args.range[1]
        x1 == last.args.range[2]
        v == last.args.value
        b == last.ret.bins
    IN  /\ v <= x0 => b[3] <= b[1]
        /\ x0 <= v => b[1] <= b[3]
        /\ v <= x1 => b[3] <= b[2]
        /\ x1 <= v => b[2] <= b[3]
        /\ (x0 <= v /\ v <= x1) => (b[1] <= b[3] /\ b[3] <= b[2])

\* a value strictly inside a range, under a scale whose range runs downwards
\* and the rounding function ROUND, with three different bins
C26_Witness ==
  /\ last.op = "binInterval"
  /\ last.args.scale = Descending
  /\ last.ret.bins # <<>>
  /\ last.ret.bin.fn = "ROUND"
  /\ last.args.range[1] < last.args.value
  /\ last.args.value < last.args.range[2]
  /\ last.ret.bins[1] < last.ret.bins[3]
  /\ last.ret.bins[3] < last.ret.bins[2]
====
